---- MODULE Spec2Model ----
(***************************************************************************)
(* A model of the zkvm-brainfuck front end: the program parser             *)
(* (Program::from), the executor (Executor::new / run / execute_cycle),    *)
(* and the prove / verify glue (utils::prove, BfProver::verify).           *)
(*                                                                         *)
(* Program counters, clocks and instruction indices are 0-based naturals   *)
(* as in the Rust code; TLA+ sequences are 1-based, so instruction pc is   *)
(* instructions[pc + 1].  The memory pointer is a u32 that the code moves  *)
(* with wrapping arithmetic; it is kept as two 16-bit limbs <<hi, lo>> so  *)
(* that the wrapped values stay representable.                             *)
(***************************************************************************)
EXTENDS Integers, Sequences, FiniteSets, TLC

VARIABLES
    phase,          \* position of the driver: "source", "parsed", "running", "draining",
                    \* "returned", "panicked", "proved", "verified"
    code,           \* the &str handed to Program::from
    parse_result,   \* what Program::from produced: NoResult, an Ok(Program) or a panic
    runtime,        \* the Executor: program, state, record, memory_accesses, memory_events
    run_result,     \* what Executor::run produced: "none", "Ok", "panic"
    proof,          \* what BfProver::prove returned (NoProof before)
    verify_result   \* what BfProver::verify returned ("none" before)

vars == <<phase, code, parse_result, runtime, run_result, proof, verify_result>>

----------------------------------------------------------------------------
(* Bounds of the model.                                                    *)

\* Sources over the full alphabet have at most MaxSrcLen characters.
MaxSrcLen == 3
\* Sources over the bracket alphabet have MaxSrcLen+1 .. MaxBracketLen characters.
MaxBracketLen == 5
\* The input stream has at most MaxInputLen bytes.
MaxInputLen == 2
\* A run is followed for at most MaxCycles cycles.
MaxCycles == 7
\* The number of CPUs num_cpus::get() may report is at most MaxNumCpus.
MaxNumCpus == 2
\* A long run is followed for LongRunCycles cycles before and after its
\* clock reaches 2^24.
LongRunCycles == 6

----------------------------------------------------------------------------
(* Characters of a source text.                                            *)

OpcodeChars == {"+", "-", ">", "<", "[", "]", ",", "."}
Whitespace  == {" ", "\n", "\r"}
\* "x" stands for every character that is neither an opcode nor whitespace.
Alphabet == OpcodeChars \cup Whitespace \cup {"x"}
BracketAlphabet == {"[", "]", "+", "-"}

Strings(S, lo, hi) == UNION {[1..n -> S] : n \in lo..hi}

\* The sources of the executor's own tests (executor.rs, mod tests).
TestSources ==
    { <<"+", "+", "-", ".">>, <<">", ">", "<">>,
      <<"[", "-", "-", "-", "-", "]">>, <<",", ".">> }

Sources ==
    Strings(Alphabet, 0, MaxSrcLen)
      \cup Strings(BracketAlphabet, MaxSrcLen + 1, MaxBracketLen)
      \cup TestSources

\* Input streams: the prefixes of the tape 1, 2, 3, ...
InputStreams == {[i \in 1..n |-> i] : n \in 0..MaxInputLen}

----------------------------------------------------------------------------
(* Option values.                                                          *)

None == [tag |-> "None"]
Some(v) == [tag |-> "Some", val |-> v]

----------------------------------------------------------------------------
(* instruction.rs                                                          *)

Instruction_new(opcode) == [opcode |-> opcode, op_a |-> 0]

Instruction_new_jmp(opcode, op_a) == [opcode |-> opcode, op_a |-> op_a]

is_alu_instruction(instr) == instr.opcode \in {"Add", "Sub"}

is_jump_instruction(instr) == instr.opcode \in {"LoopStart", "LoopEnd"}

is_memory_instruction(instr) == instr.opcode \in {"MemStepForward", "MemStepBackward"}

is_io_instruction(instr) == instr.opcode \in {"Input", "Output"}

is_mv_immutable(instr) ==
    is_alu_instruction(instr) \/ is_jump_instruction(instr) \/ instr.opcode = "Output"

\* Instruction::decode_from: the decoded instruction, or a panic: the
\* unreachable!() arm for any other character, operand.unwrap() on None.
decode_from(opcode, operand) ==
    CASE opcode = ">" -> [tag |-> "Ok", instr |-> Instruction_new("MemStepForward")]
      [] opcode = "<" -> [tag |-> "Ok", instr |-> Instruction_new("MemStepBackward")]
      [] opcode = "+" -> [tag |-> "Ok", instr |-> Instruction_new("Add")]
      [] opcode = "-" -> [tag |-> "Ok", instr |-> Instruction_new("Sub")]
      [] opcode = "." -> [tag |-> "Ok", instr |-> Instruction_new("Output")]
      [] opcode = "," -> [tag |-> "Ok", instr |-> Instruction_new("Input")]
      [] opcode = "[" ->
            IF operand.tag = "Some"
            THEN [tag |-> "Ok", instr |-> Instruction_new_jmp("LoopStart", operand.val)]
            ELSE [tag |-> "panic"]
      [] opcode = "]" ->
            IF operand.tag = "Some"
            THEN [tag |-> "Ok", instr |-> Instruction_new_jmp("LoopEnd", operand.val)]
            ELSE [tag |-> "panic"]
      [] OTHER -> [tag |-> "panic"]

\* Mutation of mnemonic: Sub is given the mnemonic of Add.
mnemonic_sub_as_add(opcode) ==
    CASE opcode = "LoopStart" -> "["
      [] opcode = "LoopEnd" -> "]"
      [] opcode \in {"Add", "Sub"} -> "+"
      [] opcode = "MemStepForward" -> ">"
      [] opcode = "MemStepBackward" -> "<"
      [] opcode = "Input" -> ","
      [] opcode = "Output" -> "."

\* Opcode::mnemonic
mnemonic(opcode) ==
    CASE opcode = "LoopStart" -> "["
      [] opcode = "LoopEnd" -> "]"
      [] opcode = "Add" -> "+"
      [] opcode = "Sub" -> "-"
      [] opcode = "MemStepForward" -> ">"
      [] opcode = "MemStepBackward" -> "<"
      [] opcode = "Input" -> ","
      [] opcode = "Output" -> "."

----------------------------------------------------------------------------
(* program.rs: Program::from                                               *)

\* The characters the parser skips (program.rs:39).
is_skipped(c) == c = " " \/ c = "\n" \/ c = "\r"

\* Mutation of loop_start_op_a: the `[` is sent one past its `]`.
loop_start_op_a_one_past(instructions) == Len(instructions) + 1

\* The operand patched into the `[` at start_pos when its `]` is met: the
\* number of instructions pushed so far, the `]` not yet among them
\* (program.rs:36).
loop_start_op_a(instructions) == Len(instructions)

\* The operand of a `]` whose `[` is at start_pos (program.rs:38).
loop_end_op_a(start_pos) == start_pos + 1

\* The pass over code.chars() from character k on, with the instructions
\* and the stack of open `[` positions built so far.
RECURSIVE from_chars(_, _, _, _)
from_chars(src, k, instructions, loop_stack) ==
    IF k > Len(src) THEN [tag |-> "Ok", instructions |-> instructions]
    ELSE
      LET c == src[k] IN
      IF c = "[" THEN
          LET d == decode_from(c, Some(0)) IN
          from_chars(src, k + 1, Append(instructions, d.instr),
                     Append(loop_stack, (Len(instructions) + 1) - 1))
      ELSE IF c = "]" THEN
          \* loop_stack.pop().unwrap()
          IF loop_stack = <<>> THEN [tag |-> "panic"]
          ELSE
            LET start_pos == loop_stack[Len(loop_stack)]
                patched == [instructions EXCEPT
                              ![start_pos + 1].op_a = loop_start_op_a(instructions)]
                d == decode_from(c, Some(loop_end_op_a(start_pos)))
            IN from_chars(src, k + 1, Append(patched, d.instr),
                          SubSeq(loop_stack, 1, Len(loop_stack) - 1))
      ELSE IF ~is_skipped(c) THEN
          LET d == decode_from(c, None) IN
          IF d.tag = "panic" THEN [tag |-> "panic"]
          ELSE from_chars(src, k + 1, Append(instructions, d.instr), loop_stack)
      ELSE from_chars(src, k + 1, instructions, loop_stack)

\* Program::from(code): Ok(Program { instructions }), or a panic.
Program_from(src) == from_chars(src, 1, <<>>, <<>>)

\* Program::new(instructions)
Program_new(instructions) == instructions

\* The text of a program: the mnemonics of its instructions' opcodes (the
\* Display of Opcode), concatenated.
render(instructions) ==
    [i \in 1..Len(instructions) |-> mnemonic(instructions[i].opcode)]

\* Program::fetch(pc): self.instructions[pc as usize]; the index panics
\* when pc is not below the length.
fetch(instructions, pc) ==
    IF pc < Len(instructions)
    THEN [tag |-> "Ok", instr |-> instructions[pc + 1]]
    ELSE [tag |-> "panic"]

----------------------------------------------------------------------------
(* u32 and u8 arithmetic.                                                  *)

\* A u32 as two 16-bit limbs <<hi, lo>>.
U32(n) == <<n \div (2^16), n % (2^16)>>

u32_wrapping_add_1(x) ==
    IF x[2] < 2^16 - 1 THEN <<x[1], x[2] + 1>>
    ELSE IF x[1] < 2^16 - 1 THEN <<x[1] + 1, 0>>
    ELSE <<0, 0>>

u32_wrapping_sub_1(x) ==
    IF x[2] > 0 THEN <<x[1], x[2] - 1>>
    ELSE IF x[1] > 0 THEN <<x[1] - 1, 2^16 - 1>>
    ELSE <<2^16 - 1, 2^16 - 1>>

\* Mutation of u8_wrapping_add_1: the addition saturates at 255.
u8_saturating_add_1(v) == IF v = 255 THEN 255 ELSE v + 1

u8_wrapping_add_1(v) == (v + 1) % 256

u8_wrapping_sub_1(v) == (v + 255) % 256

----------------------------------------------------------------------------
(* Maps (hashbrown::HashMap) as functions on their key set.                *)

EmptyMap == [k \in {} |-> None]

Put(m, k, v) == [a \in (DOMAIN m) \cup {k} |-> IF a = k THEN v ELSE m[a]]

\* The orders in which the entries of a map with key set S can be drained.
Orders(S) ==
    {f \in [1..Cardinality(S) -> S] : \A i, j \in 1..Cardinality(S) : f[i] = f[j] => i = j}

----------------------------------------------------------------------------
(* state.rs, record.rs, executor.rs: construction                          *)

\* The exponent of the largest CPU trace height the verifier admits
\* (bf_core_machine::cpu::MAX_CPU_LOG_DEGREE, imported at verify.rs:3).
MAX_CPU_LOG_DEGREE == 22

\* ExecutionState::new(input)
ExecutionState_new(input) ==
    [ pc |-> 0,
      memory_access |-> EmptyMap,
      mem_ptr |-> U32(0),
      global_clk |-> 0,
      clk |-> 0,
      input_stream |-> input,
      input_stream_ptr |-> 0,
      output_stream |-> <<>> ]

\* ExecutionRecord::new(program)
ExecutionRecord_new(program) ==
    [ program |-> program,
      cpu_events |-> <<>>,
      add_events |-> <<>>,
      sub_events |-> <<>>,
      jump_events |-> <<>>,
      io_events |-> <<>>,
      memory_instr_events |-> <<>>,
      cpu_memory_access |-> <<>> ]

\* Executor::new(program, input)
Executor_new(program, input) ==
    [ program |-> program,
      state |-> ExecutionState_new(input),
      record |-> ExecutionRecord_new(program),
      memory_accesses |-> [mv |-> None, next_mv |-> None],
      memory_events |-> EmptyMap ]

\* The Executor before Executor::new has run.
NoRuntime == [program |-> <<>>]

----------------------------------------------------------------------------
(* executor.rs: memory access helpers                                      *)

\* state.memory_access.entry(addr).or_insert(MemoryRecord { value: 0, timestamp: 0 })
entry_or_insert(memory_access, addr) ==
    IF addr \in DOMAIN memory_access THEN memory_access[addr]
    ELSE [value |-> 0, timestamp |-> 0]

\* Mutation of update_memory_events: the entry of an address already
\* present is left as it is.
update_memory_events_first_only(memory_events, addr, prev_record, record) ==
    IF addr \in DOMAIN memory_events
    THEN memory_events
    ELSE Put(memory_events, addr,
             [addr |-> addr, initial_mem_access |-> prev_record, final_mem_access |-> record])

\* memory_events.entry(addr).and_modify(|e| e.final = record).or_insert(..)
update_memory_events(memory_events, addr, prev_record, record) ==
    IF addr \in DOMAIN memory_events
    THEN [memory_events EXCEPT ![addr].final_mem_access = record]
    ELSE Put(memory_events, addr,
             [addr |-> addr, initial_mem_access |-> prev_record, final_mem_access |-> record])

\* Executor::rr_traced(addr, timestamp): the executor after the read and
\* the MemoryReadRecord.
rr_traced(self, addr, timestamp) ==
    LET prev_record == entry_or_insert(self.state.memory_access, addr)
        record == [prev_record EXCEPT !.timestamp = timestamp]
    IN [ self |-> [self EXCEPT
                     !.state.memory_access = Put(self.state.memory_access, addr, record),
                     !.memory_events =
                         update_memory_events(self.memory_events, addr, prev_record, record)],
         record |-> [ tag |-> "Read",
                      value |-> record.value,
                      timestamp |-> record.timestamp,
                      prev_timestamp |-> prev_record.timestamp ] ]

\* Executor::rw_traced(addr, value, timestamp): the executor after the
\* write and the MemoryWriteRecord.
rw_traced(self, addr, value, timestamp) ==
    LET prev_record == entry_or_insert(self.state.memory_access, addr)
        record == [value |-> value, timestamp |-> timestamp]
    IN [ self |-> [self EXCEPT
                     !.state.memory_access = Put(self.state.memory_access, addr, record),
                     !.memory_events =
                         update_memory_events(self.memory_events, addr, prev_record, record)],
         record |-> [ tag |-> "Write",
                      value |-> record.value,
                      timestamp |-> record.timestamp,
                      prev_value |-> prev_record.value,
                      prev_timestamp |-> prev_record.timestamp ] ]

\* Executor::rr_cpu(addr, timestamp): the executor after the read and the
\* value read.
rr_cpu(self, addr, timestamp) ==
    LET r == rr_traced(self, addr, timestamp)
    IN [ self |-> [r.self EXCEPT !.memory_accesses.mv = Some(r.record)],
         value |-> r.record.value ]

\* Executor::rw_cpu(register, value, timestamp, is_alu): the executor after
\* the write.
rw_cpu(self, register, value, timestamp, is_alu) ==
    LET r == rw_traced(self, register, value, timestamp)
    IN IF is_alu
       THEN [r.self EXCEPT !.memory_accesses.next_mv = Some(r.record)]
       ELSE [r.self EXCEPT !.memory_accesses.mv = Some(r.record)]

----------------------------------------------------------------------------
(* executor.rs: one cycle                                                  *)

\* Executor::execute_memory: the executor with the memory pointer stepped.
execute_memory(self, instruction) ==
    LET mp == IF instruction.opcode = "MemStepForward"
              THEN u32_wrapping_add_1(self.state.mem_ptr)
              ELSE u32_wrapping_sub_1(self.state.mem_ptr)
    IN [self EXCEPT !.state.mem_ptr = mp]

\* Mutation of read_timestamp: the read is stamped with the cycle's clk.
read_timestamp_at_clk(clk) == clk

\* The timestamps of the accesses of a cycle that starts at clk.
read_timestamp(clk) == clk + 1

alu_write_timestamp(clk) == clk + 2

input_write_timestamp(clk) == clk + 1

\* Executor::execute_alu after its read r: the write of next_mv, and
\* (next_mv, mv).
execute_alu_write(r, instruction) ==
    LET next_mv == IF instruction.opcode = "Add"
                   THEN u8_wrapping_add_1(r.value)
                   ELSE u8_wrapping_sub_1(r.value)
    IN [ tag |-> "Ok",
         self |-> rw_cpu(r.self, r.self.state.mem_ptr, next_mv,
                         alu_write_timestamp(r.self.state.clk), TRUE),
         next_mv |-> next_mv,
         mv |-> r.value ]

\* Executor::execute_alu: the executor after the read and the write, and
\* (next_mv, mv).
execute_alu(self, instruction) ==
    execute_alu_write(
        rr_cpu(self, self.state.mem_ptr, read_timestamp(self.state.clk)), instruction)

\* Mutation of execute_jump_target: `]` jumps on the same test as `[`.
execute_jump_target_same_test(r, instruction) ==
    [ tag |-> "Ok",
      self |-> r.self,
      mv |-> r.value,
      next_pc |-> IF r.value = 0 THEN instruction.op_a ELSE r.self.state.pc + 1 ]

\* Executor::execute_jump after its read r: (mv, next_pc).
execute_jump_target(r, instruction) ==
    [ tag |-> "Ok",
      self |-> r.self,
      mv |-> r.value,
      next_pc |->
          IF instruction.opcode = "LoopStart"
          THEN (IF r.value = 0 THEN instruction.op_a ELSE r.self.state.pc + 1)
          ELSE (IF r.value # 0 THEN instruction.op_a ELSE r.self.state.pc + 1) ]

\* Executor::execute_jump: the executor after the read, and (mv, next_pc).
execute_jump(self, instruction) ==
    execute_jump_target(
        rr_cpu(self, self.state.mem_ptr, read_timestamp(self.state.clk)), instruction)

\* The input pointer after a `,` (executor.rs:182-186 leaves it alone).
input_ptr_after_read(ptr) == ptr

\* Mutation of push_output: the byte is put at the front of the stream.
push_output_front(output_stream, output) == <<output>> \o output_stream

\* self.state.output_stream.push(output) (executor.rs:189).
push_output(output_stream, output) == Append(output_stream, output)

\* Executor::execute_io: the executor after the access and the byte moved;
\* indexing the input stream at or beyond its length panics.
execute_io(self, instruction) ==
    IF instruction.opcode = "Input"
    THEN IF self.state.input_stream_ptr < Len(self.state.input_stream)
         THEN LET input == self.state.input_stream[self.state.input_stream_ptr + 1]
                  w == rw_cpu(self, self.state.mem_ptr, input,
                              input_write_timestamp(self.state.clk), FALSE)
              IN [ tag |-> "Ok",
                   self |-> [w EXCEPT !.state.input_stream_ptr =
                                          input_ptr_after_read(w.state.input_stream_ptr)],
                   mv |-> input ]
         ELSE [tag |-> "panic"]
    ELSE LET r == rr_cpu(self, self.state.mem_ptr, read_timestamp(self.state.clk))
         IN [ tag |-> "Ok",
              self |-> [r.self EXCEPT !.state.output_stream = push_output(@, r.value)],
              mv |-> r.value ]

\* Executor::emit_events: the executor with this cycle's events pushed and
\* the cycle's memory accesses cleared.
emit_events(self, next_pc, instruction, jmp_dst, mp, next_mv, mv) ==
    LET cpu_event ==
            [ clk |-> self.state.clk,
              pc |-> self.state.pc,
              next_pc |-> next_pc,
              mp |-> mp,
              next_mp |-> self.state.mem_ptr,
              next_mv |-> next_mv,
              mv |-> mv,
              next_mv_access |-> self.memory_accesses.next_mv,
              mv_access |-> self.memory_accesses.mv ]
        alu_event ==
            [pc |-> self.state.pc, opcode |-> instruction.opcode,
             mv_next |-> next_mv, mv |-> mv]
        jump_event ==
            [pc |-> self.state.pc, next_pc |-> next_pc, opcode |-> instruction.opcode,
             dst |-> jmp_dst, mv |-> mv]
        mem_instr_event ==
            [clk |-> self.state.clk, pc |-> self.state.pc, opcode |-> instruction.opcode,
             mp |-> mp, next_mp |-> self.state.mem_ptr]
        io_event ==
            [pc |-> self.state.pc, opcode |-> instruction.opcode, mp |-> mp, mv |-> mv]
    IN [self EXCEPT
          !.record.cpu_events = Append(@, cpu_event),
          !.record.add_events =
              IF is_alu_instruction(instruction) THEN Append(@, alu_event) ELSE @,
          !.record.jump_events =
              IF is_jump_instruction(instruction) THEN Append(@, jump_event) ELSE @,
          !.record.memory_instr_events =
              IF is_memory_instruction(instruction) THEN Append(@, mem_instr_event) ELSE @,
          !.record.io_events =
              IF is_io_instruction(instruction) THEN Append(@, io_event) ELSE @,
          !.memory_accesses = [mv |-> None, next_mv |-> None]]

\* Mutation of next_clk: the clock advances by one.
next_clk_by_one(clk) == clk + 1

\* The clock after a cycle (executor.rs:130).
next_clk(clk) == clk + 2

\* The match of Executor::execute_instruction on the opcode: the outcome
\* of the arm taken.
dispatch(self, instruction) ==
    IF is_memory_instruction(instruction)
    THEN [tag |-> "Ok", self |-> execute_memory(self, instruction)]
    ELSE IF is_alu_instruction(instruction) THEN execute_alu(self, instruction)
    ELSE IF is_jump_instruction(instruction) THEN execute_jump(self, instruction)
    ELSE execute_io(self, instruction)

\* Mutation of update_pc_clk: the program counter steps to the following
\* instruction whatever next_pc is.
update_pc_clk_sequential(e, next_pc) ==
    [ tag |-> "Ok",
      self |-> [e EXCEPT !.state.pc = @ + 1, !.state.clk = next_clk(e.state.clk)] ]

\* The end of Executor::execute_instruction on the executor e that
\* emit_events left: the program counter and the clock are updated.
update_pc_clk(e, next_pc) ==
    [ tag |-> "Ok",
      self |-> [e EXCEPT !.state.pc = next_pc, !.state.clk = next_clk(e.state.clk)] ]

\* Executor::execute_instruction after the match, whose arm left x: the
\* locals next_pc, jmp_dst, next_mv and mv keep their initial values
\* (pc + 1, 0, 0, 0) unless the arm assigned them; pc and mp are the values
\* before the instruction.
after_dispatch(x, instruction, pc, mp) ==
    IF x.tag = "panic" THEN [tag |-> "panic"]
    ELSE update_pc_clk(
             emit_events(x.self,
                         IF is_jump_instruction(instruction) THEN x.next_pc ELSE pc + 1,
                         instruction,
                         IF is_jump_instruction(instruction) THEN x.next_pc ELSE 0,
                         mp,
                         IF is_alu_instruction(instruction) THEN x.next_mv ELSE 0,
                         IF is_memory_instruction(instruction) THEN 0 ELSE x.mv),
             IF is_jump_instruction(instruction) THEN x.next_pc ELSE pc + 1)

\* Executor::execute_instruction: the executor after the instruction, or
\* the panic of execute_io.
execute_instruction(self, instruction) ==
    after_dispatch(dispatch(self, instruction), instruction,
                   self.state.pc, self.state.mem_ptr)

\* The end of Executor::execute_cycle after execute_instruction left x: the
\* global clock is incremented and done is computed.
after_instruction(x) ==
    IF x.tag = "panic" THEN [tag |-> "panic"]
    ELSE [ tag |-> "Ok",
           self |-> [x.self EXCEPT !.state.global_clk = @ + 1],
           done |-> (x.self.state.pc = Len(x.self.program)) ]

\* Executor::execute_cycle: the executor after the cycle and whether the
\* program has finished, or the panic of the fetch or of the instruction.
execute_cycle(self) ==
    LET f == fetch(self.program, self.state.pc) IN
    IF f.tag = "panic" THEN [tag |-> "panic"]
    ELSE after_instruction(execute_instruction(self, f.instr))

\* The tail of Executor::run: the memory events drained, in the given order
\* of their addresses, into record.cpu_memory_access.
drain_memory_events(self, order) ==
    [self EXCEPT
       !.record.cpu_memory_access =
           @ \o [i \in 1..Len(order) |-> self.memory_events[order[i]]],
       !.memory_events = EmptyMap]

----------------------------------------------------------------------------
(* The machine: which chips a record brings into a shard.                  *)

\* BfAir::chips, by chip name.
ChipNames ==
    {"Cpu", "Program", "AddSub", "Jump", "Memory", "Byte", "MemoryInstrs", "IO"}

\* MachineAir::included of each chip.
CpuChip_included(record) == record.cpu_events # <<>>

ProgramChip_included(record) == TRUE

AddSubChip_included(record) == record.add_events # <<>> \/ record.sub_events # <<>>

JumpChip_included(record) == record.jump_events # <<>>

MemoryChip_included(record) == record.cpu_memory_access # <<>>

ByteChip_included(record) == TRUE

MemoryInstructionsChip_included(record) == record.memory_instr_events # <<>>

IoChip_included(record) == record.io_events # <<>>

\* chip.included(shard), dispatched on the chip.
included(chip, record) ==
    CASE chip = "Cpu" -> CpuChip_included(record)
      [] chip = "Program" -> ProgramChip_included(record)
      [] chip = "AddSub" -> AddSubChip_included(record)
      [] chip = "Jump" -> JumpChip_included(record)
      [] chip = "Memory" -> MemoryChip_included(record)
      [] chip = "Byte" -> ByteChip_included(record)
      [] chip = "MemoryInstrs" -> MemoryInstructionsChip_included(record)
      [] chip = "IO" -> IoChip_included(record)

\* StarkMachine::shard_chips
shard_chips(record) == {chip \in ChipNames : included(chip, record)}

RECURSIVE next_power_of_two(_)
next_power_of_two(n) == IF n <= 1 THEN 1 ELSE 2 * next_power_of_two((n + 1) \div 2)

RECURSIVE log2(_)
log2(n) == IF n <= 1 THEN 0 ELSE 1 + log2(n \div 2)

\* utils::next_power_of_two: the next power of two that is >= n and >= 16.
utils_next_power_of_two(n) ==
    IF next_power_of_two(n) < 16 THEN 16 ELSE next_power_of_two(n)

\* ProgramChip::generate_preprocessed_trace: row idx holds pc = idx and the
\* instruction at idx; the rows up to the padded height are zero.
ProgramChip_generate_preprocessed_trace(program) ==
    [ i \in 1..utils_next_power_of_two(Len(program)) |->
        IF i <= Len(program)
        THEN [is_padding |-> FALSE, pc |-> i - 1, instruction |-> program[i]]
        ELSE [is_padding |-> TRUE, pc |-> 0, instruction |-> None] ]

\* ProgramChip::generate_trace: the number of CPU events at pc.
instruction_counts(cpu_events, pc) ==
    Cardinality({k \in 1..Len(cpu_events) : cpu_events[k].pc = pc})

\* ProgramChip::generate_trace: the pc whose count row i (from 0) is given
\* (program/mod.rs:122).
multiplicity_pc(i) == i * 4

\* ProgramChip::generate_trace: one multiplicity per instruction, then zero
\* rows up to the padded height.
ProgramChip_generate_trace(record) ==
    [ i \in 1..utils_next_power_of_two(Len(record.program)) |->
        IF i <= Len(record.program)
        THEN [multiplicity |-> instruction_counts(record.cpu_events, multiplicity_pc(i - 1))]
        ELSE [multiplicity |-> 0] ]

\* CpuChip::generate_trace, the columns the row constraints below read: one
\* row per CPU event, then all-zero rows up to the next power of two.
cpu_trace(record) ==
    [ i \in 1..next_power_of_two(Len(record.cpu_events)) |->
        IF i <= Len(record.cpu_events)
        THEN LET event == record.cpu_events[i]
                 instruction == record.program[event.pc + 1]
             IN [ clk |-> event.clk, pc |-> event.pc, next_pc |-> event.next_pc,
                  is_real |-> IF is_alu_instruction(instruction)
                                   \/ is_jump_instruction(instruction)
                                   \/ is_memory_instruction(instruction)
                                   \/ is_io_instruction(instruction) THEN 1 ELSE 0 ]
        ELSE [clk |-> 0, pc |-> 0, next_pc |-> 0, is_real |-> 0] ]

\* CpuChip::eval: eval_clk, the pc transition and eval_is_real, on a trace.
cpu_air_holds(rows) ==
    /\ rows[1].clk = 0
    /\ rows[1].is_real = 1
    /\ \A i \in 1..(Len(rows) - 1) :
          /\ rows[i + 1].is_real = 1 => rows[i + 1].clk = rows[i].clk + 2
          /\ rows[i + 1].is_real = 1 => rows[i + 1].pc = rows[i].next_pc
          /\ rows[i].is_real = 0 => rows[i + 1].is_real = 0

\* F::from_canonical_u8(v), in the two-limb form the u32 addresses have.
from_canonical_u8(v) == U32(v)

\* MemoryReadWriteCols::populate / MemoryWriteCols::populate on the columns
\* event_to_row has preset to value: a read's previous value is its value.
populate_access_cols(value, access) ==
    IF access.tag = "None"
    THEN [ value |-> value, prev_value |-> 0, prev_clk |-> 0,
           diff_16bit_limb |-> 0, diff_8bit_limb |-> 0 ]
    ELSE [ value |-> access.val.value,
           prev_value |-> IF access.val.tag = "Read" THEN access.val.value
                          ELSE access.val.prev_value,
           prev_clk |-> access.val.prev_timestamp,
           diff_16bit_limb |->
               (access.val.timestamp - access.val.prev_timestamp - 1) % 2^16,
           diff_8bit_limb |->
               ((access.val.timestamp - access.val.prev_timestamp - 1) \div 2^16) % 2^8 ]

\* CpuChip::event_to_row, the columns eval_registers and eval_clk read: one
\* row per CPU event (is_real is the sum of the four instruction flags, one
\* of which is set), then all-zero rows up to the next power of two.
cpu_memory_cols(record) ==
    [ i \in 1..next_power_of_two(Len(record.cpu_events)) |->
        IF i <= Len(record.cpu_events)
        THEN LET event == record.cpu_events[i]
                 instruction == record.program[event.pc + 1]
             IN [ clk |-> event.clk,
                  clk_16bit_limb |-> event.clk % 2^16,
                  clk_8bit_limb |-> (event.clk \div 2^16) % 2^8,
                  is_real |-> 1,
                  mv |-> event.mv,
                  next_mv |-> event.next_mv,
                  mv_access |-> populate_access_cols(event.mv, event.mv_access),
                  next_mv_access |->
                      populate_access_cols(event.next_mv, event.next_mv_access),
                  is_memory_instr |->
                      IF is_memory_instruction(instruction) THEN 1 ELSE 0,
                  is_alu |-> IF is_alu_instruction(instruction) THEN 1 ELSE 0 ]
        ELSE [ clk |-> 0, clk_16bit_limb |-> 0, clk_8bit_limb |-> 0, is_real |-> 0,
               mv |-> 0, next_mv |-> 0,
               mv_access |-> populate_access_cols(0, None),
               next_mv_access |-> populate_access_cols(0, None),
               is_memory_instr |-> 0, is_alu |-> 0 ] ]

\* MemoryAirBuilder::eval_memory_access: the lookup sent (the previous
\* values) and the lookup received (the current values).
eval_memory_access_send(addr, memory_access, do_check) ==
    [ values |-> <<memory_access.prev_clk, addr, memory_access.prev_value>>,
      multiplicity |-> do_check ]

eval_memory_access_receive(clk, addr, memory_access, do_check) ==
    [ values |-> <<clk, addr, memory_access.value>>, multiplicity |-> do_check ]

\* CpuChip::eval_registers on a row: the Memory lookups it sends.
eval_registers_sends(local) ==
    << eval_memory_access_send(from_canonical_u8(local.mv), local.mv_access,
                               1 - local.is_memory_instr),
       eval_memory_access_send(from_canonical_u8(local.next_mv), local.next_mv_access,
                               local.is_alu) >>

\* CpuChip::eval_registers on a row: the Memory lookups it receives.
eval_registers_receives(local) ==
    << eval_memory_access_receive(local.clk, from_canonical_u8(local.mv),
                                  local.mv_access, 1 - local.is_memory_instr),
       eval_memory_access_receive(local.clk + 1, from_canonical_u8(local.next_mv),
                                  local.next_mv_access, local.is_alu) >>

\* MemoryChip::generate_trace: one entry per drained memory event, two
\* entries a row, then zero entries up to the padded height.
MemoryChip_generate_trace(record) ==
    [ i \in 1..(2 * utils_next_power_of_two((Len(record.cpu_memory_access) + 1) \div 2)) |->
        IF i <= Len(record.cpu_memory_access)
        THEN LET event == record.cpu_memory_access[i]
             IN [ addr |-> event.addr,
                  initial_clk |-> event.initial_mem_access.timestamp,
                  final_clk |-> event.final_mem_access.timestamp,
                  initial_value |-> event.initial_mem_access.value,
                  final_value |-> event.final_mem_access.value,
                  is_real |-> 1 ]
        ELSE [ addr |-> U32(0), initial_clk |-> 0, final_clk |-> 0,
               initial_value |-> 0, final_value |-> 0, is_real |-> 0 ] ]

\* MemoryChip::eval on an entry: the lookup received and the lookup sent.
MemoryChip_receive(local) ==
    [ values |-> <<local.initial_clk, local.addr, local.initial_value>>,
      multiplicity |-> local.is_real ]

MemoryChip_send(local) ==
    [ values |-> <<local.final_clk, local.addr, local.final_value>>,
      multiplicity |-> local.is_real ]

\* The Memory lookups of the CPU chip's rows, each with its place.
CpuChip_memory_sends(rows) ==
    { eval_registers_sends(rows[i])[k] @@ [chip |-> "Cpu", row |-> i, k |-> k] :
          i \in DOMAIN rows, k \in 1..2 }

CpuChip_memory_receives(rows) ==
    { eval_registers_receives(rows[i])[k] @@ [chip |-> "Cpu", row |-> i, k |-> k] :
          i \in DOMAIN rows, k \in 1..2 }

\* The Memory lookups of the Memory chip's entries, each with its place.
MemoryChip_sends(entries) ==
    { MemoryChip_send(entries[i]) @@ [chip |-> "Memory", row |-> i, k |-> 1] :
          i \in DOMAIN entries }

MemoryChip_receives(entries) ==
    { MemoryChip_receive(entries[i]) @@ [chip |-> "Memory", row |-> i, k |-> 1] :
          i \in DOMAIN entries }

\* The lookups of kind Memory that the chips included in a record's shard
\* send.
memory_bus_sends(record) ==
    (IF CpuChip_included(record)
     THEN CpuChip_memory_sends(cpu_memory_cols(record)) ELSE {})
    \cup (IF MemoryChip_included(record)
          THEN MemoryChip_sends(MemoryChip_generate_trace(record)) ELSE {})

\* The lookups of kind Memory that the chips included in a record's shard
\* receive.
memory_bus_receives(record) ==
    (IF CpuChip_included(record)
     THEN CpuChip_memory_receives(cpu_memory_cols(record)) ELSE {})
    \cup (IF MemoryChip_included(record)
          THEN MemoryChip_receives(MemoryChip_generate_trace(record)) ELSE {})

\* Opcode::as_field: the discriminant of the opcode.
Opcode_as_field(opcode) ==
    CASE opcode = "LoopStart" -> 0
      [] opcode = "LoopEnd" -> 1
      [] opcode = "Add" -> 2
      [] opcode = "Sub" -> 3
      [] opcode = "MemStepForward" -> 4
      [] opcode = "MemStepBackward" -> 5
      [] opcode = "Input" -> 6
      [] opcode = "Output" -> 7

\* CpuChip::eval and eval_instruction: the lookups a CPU row sends to the
\* specialised chips. The send_alu, send_jump, send_memory and send_io
\* calls are commented out, and eval does not call eval_instruction.
CpuChip_eval_instruction_sends(local) == {}

\* AddOperation::populate(a_u8, b_u8): the columns value and carry.
AddOperation_populate(a_u8, b_u8) ==
    [ value |-> (a_u8 + b_u8) % 256,
      carry |-> IF a_u8 + b_u8 > 255 THEN 1 ELSE 0 ]

\* AddSubChip::event_to_row
AddSubChip_event_to_row(event) ==
    LET is_add == event.opcode = "Add"
        operand_1 == IF is_add THEN event.mv_next ELSE event.mv
        operand_2 == 1
    IN [ pc |-> event.pc,
         is_add |-> IF event.opcode = "Add" THEN 1 ELSE 0,
         is_sub |-> IF event.opcode = "Sub" THEN 1 ELSE 0,
         add_operation |-> AddOperation_populate(operand_1, operand_2),
         next_mv |-> operand_1,
         mv |-> operand_2 ]

\* AddSubChip::generate_trace: one row per event of add_events chained with
\* sub_events, then zero rows up to the padded height.
AddSubChip_generate_trace(record) ==
    LET merged_events == record.add_events \o record.sub_events
    IN [ i \in 1..utils_next_power_of_two(Len(merged_events)) |->
           IF i <= Len(merged_events)
           THEN AddSubChip_event_to_row(merged_events[i])
           ELSE [ pc |-> 0, is_add |-> 0, is_sub |-> 0,
                  add_operation |-> [value |-> 0, carry |-> 0],
                  next_mv |-> 0, mv |-> 0 ] ]

\* AddSubChip::eval on a row: the two Alu lookups it receives.
AddSubChip_eval_receives(local) ==
    << [ kind |-> "Alu",
         values |-> <<local.pc, local.pc + 1, Opcode_as_field("Add"),
                      local.add_operation.value, local.mv>>,
         multiplicity |-> local.is_add ],
       [ kind |-> "Alu",
         values |-> <<local.pc, local.pc + 1, Opcode_as_field("Add"),
                      local.mv, local.add_operation.value>>,
         multiplicity |-> local.is_sub ] >>

\* AddSubChip::eval on a row: AddOperation::eval on (next_mv, mv) with
\* is_real = is_add + is_sub.
AddSubChip_eval_holds(local) ==
    LET is_real == local.is_add + local.is_sub
        overflow == local.next_mv + local.mv - local.add_operation.value
    IN /\ local.is_add \in {0, 1} /\ local.is_sub \in {0, 1} /\ is_real \in {0, 1}
       /\ is_real = 1 =>
             /\ overflow * (overflow - 256) = 0
             /\ local.add_operation.carry * (overflow - 256) = 0
             /\ (local.add_operation.carry - 1) * overflow = 0
             /\ local.add_operation.carry \in {0, 1}

\* JumpChip::event_to_row
JumpChip_event_to_row(event) ==
    [ pc |-> event.pc,
      next_pc |-> event.next_pc,
      is_loop_start |-> IF event.opcode = "LoopStart" THEN 1 ELSE 0,
      is_loop_end |-> IF event.opcode = "LoopEnd" THEN 1 ELSE 0,
      dst |-> event.dst,
      mv |-> event.mv ]

\* JumpChip::generate_trace
JumpChip_generate_trace(record) ==
    [ i \in 1..utils_next_power_of_two(Len(record.jump_events)) |->
        IF i <= Len(record.jump_events)
        THEN JumpChip_event_to_row(record.jump_events[i])
        ELSE [ pc |-> 0, next_pc |-> 0, is_loop_start |-> 0, is_loop_end |-> 0,
               dst |-> 0, mv |-> 0 ] ]

\* JumpChip::eval on a row: the Jump lookup it receives.
JumpChip_eval_receive(local) ==
    [ kind |-> "Jump",
      values |-> << local.pc, local.next_pc,
                    local.is_loop_start * Opcode_as_field("LoopStart")
                        + local.is_loop_end * Opcode_as_field("LoopEnd"),
                    local.dst, local.mv >>,
      multiplicity |-> local.is_loop_start + local.is_loop_end ]

\* MemoryInstructionsChip::event_to_row
MemoryInstructionsChip_event_to_row(event) ==
    [ clk |-> event.clk,
      pc |-> event.pc,
      mp |-> event.mp,
      next_mp |-> event.next_mp,
      is_step_forward |-> IF event.opcode = "MemStepForward" THEN 1 ELSE 0,
      is_step_backward |-> IF event.opcode = "MemStepBackward" THEN 1 ELSE 0,
      is_real |-> 1 ]

\* MemoryInstructionsChip::generate_trace
MemoryInstructionsChip_generate_trace(record) ==
    [ i \in 1..utils_next_power_of_two(Len(record.memory_instr_events)) |->
        IF i <= Len(record.memory_instr_events)
        THEN MemoryInstructionsChip_event_to_row(record.memory_instr_events[i])
        ELSE [ clk |-> 0, pc |-> 0, mp |-> U32(0), next_mp |-> U32(0),
               is_step_forward |-> 0, is_step_backward |-> 0, is_real |-> 0 ] ]

\* MemoryInstructionsChip::eval on a row: the MemInstr lookup it receives.
MemoryInstructionsChip_eval_receive(local) ==
    [ kind |-> "MemInstr",
      values |-> << local.clk, local.pc,
                    local.is_step_forward * Opcode_as_field("MemStepForward")
                        + local.is_step_backward * Opcode_as_field("MemStepBackward"),
                    local.mp, local.next_mp >>,
      multiplicity |-> local.is_step_forward + local.is_step_backward ]

\* IoChip::event_to_row
IoChip_event_to_row(event) ==
    [ pc |-> event.pc,
      mp |-> event.mp,
      mv |-> event.mv,
      is_input |-> IF event.opcode = "Input" THEN 1 ELSE 0,
      is_output |-> IF event.opcode = "Output" THEN 1 ELSE 0 ]

\* IoChip::generate_trace
IoChip_generate_trace(record) ==
    [ i \in 1..utils_next_power_of_two(Len(record.io_events)) |->
        IF i <= Len(record.io_events)
        THEN IoChip_event_to_row(record.io_events[i])
        ELSE [pc |-> 0, mp |-> U32(0), mv |-> 0, is_input |-> 0, is_output |-> 0] ]

\* IoChip::eval on a row: the IO lookup it receives.
IoChip_eval_receive(local) ==
    [ kind |-> "IO",
      values |-> << local.pc,
                    local.is_input * Opcode_as_field("Input")
                        + local.is_output * Opcode_as_field("Output"),
                    local.mp, local.mv >>,
      multiplicity |-> local.is_input + local.is_output ]

\* The lookups the rows of the specialised chips receive, each with its
\* place.
AddSubChip_receives(rows) ==
    { AddSubChip_eval_receives(rows[i])[k] @@ [chip |-> "AddSub", row |-> i, k |-> k] :
          i \in DOMAIN rows, k \in 1..2 }

JumpChip_receives(rows) ==
    { JumpChip_eval_receive(rows[i]) @@ [chip |-> "Jump", row |-> i, k |-> 1] :
          i \in DOMAIN rows }

MemoryInstructionsChip_receives(rows) ==
    { MemoryInstructionsChip_eval_receive(rows[i])
          @@ [chip |-> "MemoryInstrs", row |-> i, k |-> 1] : i \in DOMAIN rows }

IoChip_receives(rows) ==
    { IoChip_eval_receive(rows[i]) @@ [chip |-> "IO", row |-> i, k |-> 1] :
          i \in DOMAIN rows }

\* The lookups of the CPU rows to the specialised chips, each with its place.
CpuChip_instruction_sends(rows) ==
    UNION { { l @@ [chip |-> "Cpu", row |-> i] : l \in CpuChip_eval_instruction_sends(rows[i]) } :
              i \in DOMAIN rows }

\* The lookups of kinds Alu, Jump, MemInstr and IO that the chips included
\* in a record's shard send.
instruction_bus_sends(record) ==
    IF CpuChip_included(record)
    THEN CpuChip_instruction_sends(cpu_trace(record)) ELSE {}

\* The lookups of kinds Alu, Jump, MemInstr and IO that the chips included
\* in a record's shard receive.
instruction_bus_receives(record) ==
    (IF AddSubChip_included(record)
     THEN AddSubChip_receives(AddSubChip_generate_trace(record)) ELSE {})
    \cup (IF JumpChip_included(record)
          THEN JumpChip_receives(JumpChip_generate_trace(record)) ELSE {})
    \cup (IF MemoryInstructionsChip_included(record)
          THEN MemoryInstructionsChip_receives(MemoryInstructionsChip_generate_trace(record))
          ELSE {})
    \cup (IF IoChip_included(record)
          THEN IoChip_receives(IoChip_generate_trace(record)) ELSE {})

(***************************************************************************)
(* The Byte bus: the range checks chips request and the events recorded    *)
(* for them.                                                               *)
(***************************************************************************)

\* The order of the KoalaBear field, SC::Val::order().
KoalaBearOrder == 127 * 2^24 + 1

\* Addition of field elements, the cumulative sums taken in the base field.
field_add(a, b) == IF a >= KoalaBearOrder - b THEN a - (KoalaBearOrder - b) ELSE a + b

\* ByteOpcode::as_field: the discriminant of the opcode.
ByteOpcode_as_field(opcode) == IF opcode = "U8Range" THEN 0 ELSE 1

\* ByteLookupEvent::new.
ByteLookupEvent_new(opcode, a1, a2, b, c) ==
    [opcode |-> opcode, a1 |-> a1, a2 |-> a2, b |-> b, c |-> c]

\* ByteRecord::add_u16_range_check and add_u8_range_check: the event each
\* one records.
add_u16_range_check(a) == ByteLookupEvent_new("U16Range", a, 0, 0, 0)

add_u8_range_check(a) == ByteLookupEvent_new("U8Range", 0, 0, a, 0)

\* A map ByteLookupEvent -> multiplicity is a function on the keys present.
byte_lookups_count(map, blu_event) ==
    IF blu_event \in DOMAIN map THEN map[blu_event] ELSE 0

\* ByteRecord::add_byte_lookup_event (HashMap and ExecutionRecord): the
\* entry of the event is incremented, or inserted with 1.
add_byte_lookup_event(map, blu_event) ==
    [e \in (DOMAIN map) \cup {blu_event} |->
        byte_lookups_count(map, e) + (IF e = blu_event THEN 1 ELSE 0)]

\* ByteRecord::add_byte_lookup_events: the events added one by one.
RECURSIVE add_byte_lookup_events(_, _)
add_byte_lookup_events(map, blu_events) ==
    IF blu_events = <<>> THEN map
    ELSE add_byte_lookup_events(add_byte_lookup_event(map, Head(blu_events)),
                                Tail(blu_events))

\* One map of add_byte_lookup_events_from_maps: every entry of new_blu_map is
\* added to the entry of the same key, inserted with 0 first when absent.
add_byte_lookup_events_from_map(map, new_blu_map) ==
    [e \in (DOMAIN map) \cup (DOMAIN new_blu_map) |->
        byte_lookups_count(map, e) + byte_lookups_count(new_blu_map, e)]

\* ByteRecord::add_byte_lookup_events_from_maps: the maps of the vector in
\* order.
RECURSIVE add_byte_lookup_events_from_maps(_, _)
add_byte_lookup_events_from_maps(map, new_events) ==
    IF new_events = <<>> THEN map
    ELSE add_byte_lookup_events_from_maps(
             add_byte_lookup_events_from_map(map, Head(new_events)),
             Tail(new_events))

\* The events CpuChip::event_to_row records in its blu map for one event:
\* populate_clk, MemoryAccessCols::populate_access and the range check of mv
\* have their add_u16_range_check / add_u8_range_check calls commented out.
CpuChip_event_to_row_blu(event) == <<>>

\* CpuChip::generate_dependencies: the blu map of the rows of the CPU events,
\* merged into an empty output.
RECURSIVE CpuChip_blu_events(_)
CpuChip_blu_events(cpu_events) ==
    IF cpu_events = <<>> THEN <<>>
    ELSE CpuChip_event_to_row_blu(Head(cpu_events)) \o CpuChip_blu_events(Tail(cpu_events))

CpuChip_generate_dependencies(record) ==
    add_byte_lookup_events_from_maps(
        <<>>, <<add_byte_lookup_events(<<>>, CpuChip_blu_events(record.cpu_events))>>)

\* U8AirBuilder::range_check_u8: the Byte lookup sent.
range_check_u8(value, multiplicity) ==
    [ kind |-> "Byte", values |-> <<ByteOpcode_as_field("U8Range"), 0, value>>,
      multiplicity |-> multiplicity ]

\* MemoryAirBuilder::eval_range_check_24bits: the two Byte lookups sent, and
\* the constraint value = limb_16 + limb_8 * 2^16 under do_check.
eval_range_check_24bits_sends(limb_16, limb_8, do_check) ==
    << [ kind |-> "Byte", values |-> <<ByteOpcode_as_field("U16Range"), 0, limb_16>>,
         multiplicity |-> do_check ],
       [ kind |-> "Byte", values |-> <<ByteOpcode_as_field("U8Range"), limb_8, 0>>,
         multiplicity |-> do_check ] >>

eval_range_check_24bits_holds(value, limb_16, limb_8, do_check) ==
    do_check # 0 => value = (limb_16 + limb_8 * 2^16) % KoalaBearOrder

\* MemoryAirBuilder::eval_memory_access_timestamp: the range check of
\* clk - prev_clk - 1, a field element.
field_sub(a, b) == IF a >= b THEN a - b ELSE a + (KoalaBearOrder - b)

eval_memory_access_timestamp_sends(mem_access, do_check) ==
    eval_range_check_24bits_sends(mem_access.diff_16bit_limb,
                                  mem_access.diff_8bit_limb, do_check)

eval_memory_access_timestamp_holds(mem_access, do_check, clk) ==
    eval_range_check_24bits_holds(field_sub(field_sub(clk, mem_access.prev_clk), 1),
                                  mem_access.diff_16bit_limb,
                                  mem_access.diff_8bit_limb, do_check)

\* MemoryAirBuilder::eval_memory_access, its constraints: do_check is a
\* boolean and the timestamp check.
eval_memory_access_holds(clk, memory_access, do_check) ==
    /\ do_check \in {0, 1}
    /\ eval_memory_access_timestamp_holds(memory_access, do_check, clk)

\* CpuChip::eval_registers, the constraints of its two memory accesses.
eval_registers_holds(local) ==
    /\ eval_memory_access_holds(local.clk, local.mv_access, 1 - local.is_memory_instr)
    /\ eval_memory_access_holds(local.clk + 1, local.next_mv_access, local.is_alu)

\* CpuChip::eval_clk, the range check of clk on the row.
eval_clk_range_holds(local) ==
    eval_range_check_24bits_holds(local.clk, local.clk_16bit_limb,
                                  local.clk_8bit_limb, local.is_real)

\* The Byte lookups the CPU AIR sends on one row: eval_clk (the limbs of
\* clk under is_real), eval_registers (the timestamp difference of the
\* mv_access under 1 - is_memory_instr and of the next_mv_access under
\* is_alu, the range check of mv under is_real).
CpuChip_eval_byte_sends(local) ==
    eval_range_check_24bits_sends(local.clk_16bit_limb, local.clk_8bit_limb,
                                  local.is_real)
    \o eval_memory_access_timestamp_sends(local.mv_access, 1 - local.is_memory_instr)
    \o eval_memory_access_timestamp_sends(local.next_mv_access, local.is_alu)
    \o <<range_check_u8(local.mv, local.is_real)>>

\* The Byte lookups the CPU chip sends over its rows, each with its place.
CpuChip_byte_sends(rows) ==
    { CpuChip_eval_byte_sends(rows[i])[k] @@ [chip |-> "Cpu", row |-> i, k |-> k] :
        i \in DOMAIN rows, k \in 1..7 }

\* The events AddSubChip::event_to_row records in its blu map for one
\* event: AddOperation::populate range-checks both operands and the sum.
AddSubChip_event_to_row_blu(event) ==
    LET cols == AddSubChip_event_to_row(event)
    IN << add_u8_range_check(cols.next_mv), add_u8_range_check(cols.mv),
          add_u8_range_check(cols.add_operation.value) >>

\* slice::chunks: the consecutive chunks of chunk_size elements, the last
\* one shorter when the length is not a multiple.
RECURSIVE chunks(_, _)
chunks(s, chunk_size) ==
    IF s = <<>> THEN <<>>
    ELSE IF Len(s) <= chunk_size THEN <<s>>
    ELSE <<SubSeq(s, 1, chunk_size)>> \o chunks(SubSeq(s, chunk_size + 1, Len(s)), chunk_size)

\* The blu map of one chunk of ALU events.
RECURSIVE AddSubChip_blu(_)
AddSubChip_blu(events) ==
    IF events = <<>> THEN <<>>
    ELSE add_byte_lookup_events_from_map(
             add_byte_lookup_events(<<>>, AddSubChip_event_to_row_blu(Head(events))),
             AddSubChip_blu(Tail(events)))

\* AddSubChip::generate_dependencies, the blu maps of the chunks of
\* add_events chained with the chunks of sub_events; num_cpus is
\* num_cpus::get().
AddSubChip_chunk_size(record, num_cpus) ==
    IF (Len(record.add_events) + Len(record.sub_events)) \div num_cpus >= 1
    THEN (Len(record.add_events) + Len(record.sub_events)) \div num_cpus ELSE 1

AddSubChip_blu_batches(record, num_cpus) ==
    LET event_iter == chunks(record.add_events, AddSubChip_chunk_size(record, num_cpus))
                      \o chunks(record.sub_events, AddSubChip_chunk_size(record, num_cpus))
    IN [i \in DOMAIN event_iter |-> AddSubChip_blu(event_iter[i])]

\* AddSubChip::generate_dependencies: the batches merged into the output in
\* the order they were collected.
AddSubChip_generate_dependencies(record, num_cpus) ==
    add_byte_lookup_events_from_maps(<<>>, AddSubChip_blu_batches(record, num_cpus))

\* MachineAir::generate_dependencies of a chip: the byte_lookups of its
\* output record. The Jump and MemoryInstructions chips merge blu maps their
\* event_to_row never writes; the Program, Memory, Byte and IO chips do
\* nothing.
Chip_generate_dependencies(chip, record, num_cpus) ==
    CASE chip = "Cpu" -> CpuChip_generate_dependencies(record)
      [] chip = "AddSub" -> AddSubChip_generate_dependencies(record, num_cpus)
      [] OTHER -> <<>>

\* Mutation of MachineRecord::append: the other map is taken over whether
\* or not the destination is empty.
ExecutionRecord_append_take(byte_lookups, other) == other

\* MachineRecord::append on byte_lookups: an empty destination takes the
\* other map over, a non-empty one adds it key by key.
ExecutionRecord_append(byte_lookups, other) ==
    IF DOMAIN byte_lookups = {} THEN other
    ELSE add_byte_lookup_events_from_maps(byte_lookups, <<other>>)

\* StarkMachine::generate_dependencies: every chip of the sequence chips in
\* turn generates its dependencies into a fresh output, which is appended
\* to the record; the byte_lookups the record ends with.
RECURSIVE StarkMachine_generate_dependencies(_, _, _, _)
StarkMachine_generate_dependencies(chips, record, byte_lookups, num_cpus) ==
    IF chips = <<>> THEN byte_lookups
    ELSE StarkMachine_generate_dependencies(
             Tail(chips), record,
             ExecutionRecord_append(byte_lookups,
                                    Chip_generate_dependencies(Head(chips), record, num_cpus)),
             num_cpus)

\* ByteOpcode::all
ByteOpcode_all == <<"U8Range">>

\* ByteChip::trace, the preprocessed row at row_index: the pairs (b, c) are
\* enumerated with c running fastest; value_u16 is written only in the
\* iteration of U16Range, an opcode ByteOpcode::all does not list.
ByteChip_trace(row_index) ==
    [ b |-> row_index \div 256,
      c |-> row_index % 256,
      value_u16 |-> IF \E i \in DOMAIN ByteOpcode_all : ByteOpcode_all[i] = "U16Range"
                    THEN 256 * (row_index \div 256) + (row_index % 256)
                    ELSE 0 ]

\* The column the U8Range receive reads, local.value_u8: the byte b of the
\* row (BytePreprocessedCols declares b, c and value_u16).
ByteChip_value_u8(local) == local.b

\* ByteChip::generate_trace, the row a lookup increments: value_u16 of the
\* event for U16Range (the operand add_u16_range_check sets), value_u8
\* otherwise (the operand add_u8_range_check sets).
ByteChip_row(lookup) == IF lookup.opcode = "U16Range" THEN lookup.a1 ELSE lookup.b

\* ByteChip::generate_trace: multiplicities[index] of the row, the sum of the
\* multiplicities of the lookups of that row and opcode.
RECURSIVE ByteChip_sum(_, _)
ByteChip_sum(byte_lookups, lookups) ==
    IF lookups = {} THEN 0
    ELSE LET lookup == CHOOSE l \in lookups : TRUE
         IN byte_lookups[lookup] + ByteChip_sum(byte_lookups, lookups \ {lookup})

ByteChip_generate_trace(byte_lookups, row, index) ==
    ByteChip_sum(byte_lookups,
                 { lookup \in DOMAIN byte_lookups :
                     /\ ByteChip_row(lookup) = row
                     /\ ByteOpcode_as_field(lookup.opcode) = index })

\* ByteChip::eval on a row: one receive per opcode of ByteOpcode::all, with
\* the multiplicity column of its position.
ByteChip_eval_receives(byte_lookups, row) ==
    [ i \in DOMAIN ByteOpcode_all |->
        [ kind |-> "Byte",
          values |-> IF ByteOpcode_all[i] = "U8Range"
                     THEN <<ByteOpcode_as_field(ByteOpcode_all[i]), 0,
                            ByteChip_value_u8(ByteChip_trace(row))>>
                     ELSE <<ByteOpcode_as_field(ByteOpcode_all[i]),
                            ByteChip_trace(row).value_u16, 0>>,
          multiplicity |-> ByteChip_generate_trace(byte_lookups, row, i - 1) ] ]

\* The Byte lookups the Byte chip receives over the rows whose
\* multiplicities generate_trace touched (all other rows receive with
\* multiplicity zero), each with its place.
ByteChip_receives(byte_lookups) ==
    { ByteChip_eval_receives(byte_lookups, ByteChip_row(lookup))[k]
        @@ [chip |-> "Byte", row |-> ByteChip_row(lookup), k |-> k] :
        lookup \in DOMAIN byte_lookups, k \in DOMAIN ByteOpcode_all }

\* AddOperation::eval on an AddSub row: the three range checks it sends.
AddSubChip_eval_byte_sends(local) ==
    << range_check_u8(local.next_mv, local.is_add + local.is_sub),
       range_check_u8(local.mv, local.is_add + local.is_sub),
       range_check_u8(local.add_operation.value, local.is_add + local.is_sub) >>

AddSubChip_byte_sends(rows) ==
    { AddSubChip_eval_byte_sends(rows[i])[k] @@ [chip |-> "AddSub", row |-> i, k |-> k] :
        i \in DOMAIN rows, k \in 1..3 }

\* The Byte lookups all chips of a shard send, and those the Byte chip
\* receives from the byte_lookups of the record.
byte_bus_sends(record) ==
    (IF CpuChip_included(record)
     THEN CpuChip_byte_sends(cpu_memory_cols(record)) ELSE {})
    \cup (IF AddSubChip_included(record)
          THEN AddSubChip_byte_sends(AddSubChip_generate_trace(record)) ELSE {})

byte_bus_receives(byte_lookups) == ByteChip_receives(byte_lookups)

\* NUM_ROWS of the Byte chip, the height of its preprocessed and main trace.
ByteChip_NUM_ROWS == 2^16

\* The number of rows of a chip's main trace (generate_trace): the Memory
\* chip holds two entries a row, the Byte chip a row per table row.
main_trace_height(chip, record) ==
    CASE chip = "Cpu" -> Len(cpu_trace(record))
      [] chip = "Program" -> Len(ProgramChip_generate_trace(record))
      [] chip = "AddSub" -> Len(AddSubChip_generate_trace(record))
      [] chip = "Jump" -> Len(JumpChip_generate_trace(record))
      [] chip = "Memory" -> Len(MemoryChip_generate_trace(record)) \div 2
      [] chip = "Byte" -> ByteChip_NUM_ROWS
      [] chip = "MemoryInstrs" -> Len(MemoryInstructionsChip_generate_trace(record))
      [] chip = "IO" -> Len(IoChip_generate_trace(record))

\* The shard proof a machine prover builds from a record, the commitment
\* scheme taken as ideal: the chips of the shard and the record their
\* traces are generated from.
MachineProver_prove(record) ==
    [chip_ordering |-> shard_chips(record), record |-> record]

\* utils::prove(prover, pk, program, input): the executor is constructed,
\* its record is proved, and its output stream and cycle count are returned.
prove(program, input) ==
    LET runtime0 == Executor_new(program, input)
        shard_proof == MachineProver_prove(runtime0.record)
    IN [ shard_proof |-> shard_proof,
         output_stream |-> runtime0.state.output_stream,
         global_clk |-> runtime0.state.global_clk ]

\* BfProver::prove(pk, stdin), pk.elf being the source given to setup.
BfProver_prove(elf, stdin) ==
    LET program == Program_from(elf).instructions
        p == prove(program, stdin)
    IN [ proof |-> p.shard_proof,
         stdin |-> stdin,
         public_values |-> p.output_stream,
         cycles |-> p.global_clk ]

NoProof == [stdin |-> <<>>]

\* ShardProof::contains_cpu
contains_cpu(shard) == "Cpu" \in shard.chip_ordering

\* ShardProof::log_degree_cpu
log_degree_cpu(shard) == log2(Len(cpu_trace(shard.record)))

\* StarkMachine::verify with the commitment scheme taken as ideal, as far as
\* the CPU chip goes: its row constraints on the trace of the proved record.
machine_verify(shard) ==
    IF cpu_air_holds(cpu_trace(shard.record)) THEN "Ok" ELSE "InvalidShardProof"

\* BfProver::verify(proof, vk)
BfProver_verify(shard) ==
    IF ~contains_cpu(shard) THEN "MissingCpuInFirstShard"
    ELSE IF log_degree_cpu(shard) > MAX_CPU_LOG_DEGREE THEN "CpuLogDegreeTooLarge"
    ELSE machine_verify(shard)

----------------------------------------------------------------------------
(* The state machine.                                                      *)

NoResult == [tag |-> "none"]

Init ==
    /\ phase = "source"
    /\ code \in Sources
    /\ parse_result = NoResult
    /\ runtime = NoRuntime
    /\ run_result = "none"
    /\ proof = NoProof
    /\ verify_result = "none"

\* Program::from(code)
ProgramFrom ==
    /\ phase = "source"
    /\ parse_result' = Program_from(code)
    /\ phase' = "parsed"
    /\ UNCHANGED <<code, runtime, run_result, proof, verify_result>>

\* Executor::new(Program::from(code).unwrap(), input)
ExecutorNew ==
    /\ phase = "parsed"
    /\ parse_result.tag = "Ok"
    /\ \E input \in InputStreams :
          runtime' = Executor_new(parse_result.instructions, input)
    /\ phase' = "running"
    /\ UNCHANGED <<code, parse_result, run_result, proof, verify_result>>

\* One turn of the loop of Executor::run: execute_cycle()?, which leaves
\* the loop when the cycle reports done and unwinds when it panics.
ExecuteCycle ==
    /\ phase = "running"
    /\ runtime.state.global_clk < MaxCycles
    /\ \E r \in {execute_cycle(runtime)} :
         IF r.tag = "panic"
         THEN /\ phase' = "panicked"
              /\ run_result' = "panic"
              /\ UNCHANGED runtime
         ELSE /\ runtime' = r.self
              /\ phase' = IF r.done THEN "draining" ELSE "running"
              /\ UNCHANGED run_result
    /\ UNCHANGED <<code, parse_result, proof, verify_result>>

\* The tail of Executor::run: drain the memory events, return Ok(()).
RunReturn ==
    /\ phase = "draining"
    /\ \E order \in Orders(DOMAIN runtime.memory_events) :
          runtime' = drain_memory_events(runtime, order)
    /\ run_result' = "Ok"
    /\ phase' = "returned"
    /\ UNCHANGED <<code, parse_result, proof, verify_result>>

\* BfProver::prove(pk, stdin) for the program and the input just executed.
Prove ==
    /\ phase = "returned"
    /\ proof' = BfProver_prove(code, runtime.state.input_stream)
    /\ phase' = "proved"
    /\ UNCHANGED <<code, parse_result, runtime, run_result, verify_result>>

\* BfProver::verify(proof, vk)
Verify ==
    /\ phase = "proved"
    /\ verify_result' = BfProver_verify(proof.proof)
    /\ phase' = "verified"
    /\ UNCHANGED <<code, parse_result, runtime, run_result, proof>>

Next ==
    \/ ProgramFrom
    \/ ExecutorNew
    \/ ExecuteCycle
    \/ RunReturn
    \/ Prove
    \/ Verify

Spec == Init /\ [][Next]_vars

----------------------------------------------------------------------------
(* Programs built by hand, rendered and parsed again.                      *)

\* A program built by hand has at most MaxProgramLen instructions.
MaxProgramLen == 2
\* The operand given to Instruction::new_jmp is at most MaxOpA.
MaxOpA == 2

\* The instructions Instruction::new and Instruction::new_jmp build.
Instructions ==
    {Instruction_new(o) :
        o \in {"Add", "Sub", "MemStepForward", "MemStepBackward", "Input", "Output"}}
      \cup {Instruction_new_jmp(o, a) : o \in {"LoopStart", "LoopEnd"}, a \in 0..MaxOpA}

\* A Program p is built with Program::new; the executor's program field
\* stands for the variable holding it.
InitRoundTrip ==
    /\ phase = "new"
    /\ code = <<>>
    /\ parse_result = NoResult
    /\ runtime \in {[program |-> Program_new(instructions)] :
                      instructions \in Strings(Instructions, 0, MaxProgramLen)}
    /\ run_result = "none"
    /\ proof = NoProof
    /\ verify_result = "none"

\* render(p)
Render ==
    /\ phase = "new"
    /\ code' = render(runtime.program)
    /\ phase' = "source"
    /\ UNCHANGED <<parse_result, runtime, run_result, proof, verify_result>>

NextRoundTrip ==
    \/ Render
    \/ ProgramFrom

SpecRoundTrip == InitRoundTrip /\ [][NextRoundTrip]_vars

----------------------------------------------------------------------------
(* The verifier on shard proofs: verifier.rs, types.rs, machine.rs,        *)
(* prover/src/verify.rs. The commitment scheme and the out-of-domain       *)
(* evaluation are taken as ideal: a proof carries whether its opening      *)
(* argument verifies and which chips' constraint evaluations match.        *)

MaxOpenedChips == 3

\* BfAir::chips: the machine's chips in their order.
MachineChips ==
    <<"Cpu", "Program", "AddSub", "Jump", "Memory", "Byte", "MemoryInstrs", "IO">>

\* StarkMachine::setup: the chips of vk.chip_information, those with a
\* preprocessed trace.
vk_chip_information == {"Program", "Byte"}

\* Chip::num_sent_byte_lookups: the Byte sends of the chip's AIR (CpuChip:
\* range_check_u8, eval_range_check_24bits of clk and of the two memory
\* accesses; AddSubChip: the three range checks of AddOperation::eval).
num_sent_byte_lookups(chip) ==
    CASE chip = "Cpu" -> 7
      [] chip = "AddSub" -> 3
      [] OTHER -> 0

\* Chip::sends and Chip::receives are not both empty for any chip.
has_lookups(chip) == chip \in ChipNames

\* StarkMachine::shard_chips_ordered: the machine's chips named by the
\* ordering, sorted by their index (the sort is stable).
RECURSIVE sorted_by_key(_, _, _)
sorted_by_key(names, chip_ordering, key) ==
    IF key > MaxOpenedChips THEN <<>>
    ELSE SelectSeq(names, LAMBDA c : chip_ordering[c] = key)
             \o sorted_by_key(names, chip_ordering, key + 1)

shard_chips_ordered(chip_ordering) ==
    sorted_by_key(SelectSeq(MachineChips, LAMBDA c : c \in DOMAIN chip_ordering),
                  chip_ordering, 0)

\* ShardProof::cumulative_sum: the sum of the chips' cumulative sums.
RECURSIVE sum_cumulative(_)
sum_cumulative(chips) ==
    IF chips = <<>> THEN 0
    ELSE field_add(Head(chips).cumulative_sum, sum_cumulative(Tail(chips)))

ShardProof_cumulative_sum(shard_proof) == sum_cumulative(shard_proof.opened_values)

\* ShardProof::contains_cpu
ShardProof_contains_cpu(shard_proof) == "Cpu" \in DOMAIN shard_proof.chip_ordering

\* ShardProof::log_degree_cpu: indexing the opened values beyond their
\* length panics.
ShardProof_log_degree_cpu(shard_proof) ==
    IF shard_proof.chip_ordering["Cpu"] < Len(shard_proof.opened_values)
    THEN Some(shard_proof.opened_values[shard_proof.chip_ordering["Cpu"] + 1].log_degree)
    ELSE None

\* Verifier::verify_shard, one term of the byte multiplicities:
\* num_sent_byte_lookups * (1 << log_degree). A term beyond the field order
\* is kept as the order plus one: there the checked multiplication
\* overflows or the assertion on the sum fails, and both panic.
byte_lookup_mult(chip, log_degree) ==
    IF num_sent_byte_lookups(chip) = 0 THEN 0
    ELSE IF log_degree >= 31 THEN KoalaBearOrder + 1
    ELSE IF 2^log_degree > KoalaBearOrder \div num_sent_byte_lookups(chip)
    THEN KoalaBearOrder + 1
    ELSE num_sent_byte_lookups(chip) * 2^log_degree

\* Verifier::verify_shard, the sum of the byte multiplicities, kept as the
\* order plus one beyond the field order.
RECURSIVE sum_byte_lookup_mult(_, _)
sum_byte_lookup_mult(chips, opened_values) ==
    IF chips = <<>> THEN 0
    ELSE LET term == byte_lookup_mult(Head(chips), Head(opened_values).log_degree)
             rest == sum_byte_lookup_mult(Tail(chips), Tail(opened_values))
         IN IF term > KoalaBearOrder - rest THEN KoalaBearOrder + 1 ELSE term + rest

\* Verifier::verify_shard, max_byte_lookup_mult: checked_shl is None on a
\* log degree of 64 or more, whatever the chip sends, and its unwrap panics.
max_byte_lookup_mult(chips, opened_values) ==
    IF \E i \in 1..Len(opened_values) : opened_values[i].log_degree >= 64 THEN None
    ELSE Some(sum_byte_lookup_mult(chips, opened_values))

\* Verifier::verify_shard panics on the byte multiplicities: a checked
\* operation is unwrapped on None, or the sum is beyond the field order.
byte_lookup_mult_panics(chips, opened_values) ==
    \/ max_byte_lookup_mult(chips, opened_values) = None
    \/ max_byte_lookup_mult(chips, opened_values).val > KoalaBearOrder

Ok == [tag |-> "Ok"]
Err(error) == [tag |-> "Err", error |-> error]
Panic == [tag |-> "panic"]

\* Mutation of cumulative_sum_check: the sum is not compared with zero.
cumulative_sum_unchecked(shard_proof) == Ok

\* Verifier::verify_shard, its last check (verifier.rs:209-215): the sum of
\* the cumulative sums is zero.
cumulative_sum_check(shard_proof) ==
    IF ShardProof_cumulative_sum(shard_proof) # 0 THEN Err("CumulativeSumsError")
    ELSE Ok

\* Verifier::verify_shard, from the opening argument on: the preprocessed
\* openings are indexed by chip_ordering, the opening argument is verified,
\* the constraint evaluations are verified chip by chip, and the sum of the
\* cumulative sums is compared with zero.
verify_shard_openings(chips, shard_proof) ==
    IF \E name \in vk_chip_information :
           \/ name \notin DOMAIN shard_proof.chip_ordering
           \/ shard_proof.chip_ordering[name] >= Len(shard_proof.opened_values)
    THEN Panic
    ELSE IF ~shard_proof.opening_ok THEN Err("InvalidopeningArgument")
    ELSE IF \E i \in 1..Len(chips) : chips[i] \in shard_proof.ood_mismatch
    THEN Err("OodEvaluationMismatch")
    ELSE cumulative_sum_check(shard_proof)

\* Verifier::verify_shard(config, vk, chips, challenger, proof)
Verifier_verify_shard(chips, shard_proof) ==
    IF Len(chips) # Len(shard_proof.opened_values) THEN Err("ChipOpeningLengthMismatch")
    ELSE IF byte_lookup_mult_panics(chips, shard_proof.opened_values) THEN Panic
    ELSE IF \E i \in 1..Len(chips) :
                ~has_lookups(chips[i]) /\ shard_proof.opened_values[i].cumulative_sum # 0
    THEN Err("CumulativeSumsError")
    ELSE verify_shard_openings(chips, shard_proof)

\* StarkMachine::verify: the error of verify_shard is wrapped in
\* InvalidShardProof.
StarkMachine_verify(shard_proof) ==
    LET r == Verifier_verify_shard(shard_chips_ordered(shard_proof.chip_ordering), shard_proof)
    IN IF r.tag = "Err" THEN [tag |-> "Err", error |-> "InvalidShardProof", inner |-> r.error]
       ELSE r

\* The challenger as the transcript of what it absorbed and emitted.
observe(challenger, value) ==
    Append(challenger, [op |-> "observe", value |-> value, chip |-> ""])

sample_ext_element(challenger, value) ==
    Append(challenger, [op |-> "sample", value |-> value, chip |-> ""])

\* StarkVerifyingKey::observe_into: the preprocessed commitment and seven
\* zeros.
StarkVerifyingKey_observe_into(challenger) ==
    observe(challenger, "commit")
        \o [i \in 1..7 |-> [op |-> "observe", value |-> "ZERO", chip |-> ""]]

\* StarkProvingKey::observe_into
StarkProvingKey_observe_into(challenger) ==
    observe(challenger, "commit")
        \o [i \in 1..7 |-> [op |-> "observe", value |-> "ZERO", chip |-> ""]]

\* Verifier::verify_shard, the loop over the opened cumulative sums: each
\* sum is observed, and the loop returns on a non-zero sum of a chip that
\* has no lookups.
RECURSIVE observe_cumulative_sums(_, _, _)
observe_cumulative_sums(challenger, chips, opened_values) ==
    IF chips = <<>> THEN challenger
    ELSE LET observed == Append(challenger, [ op |-> "observe", value |-> "cumulative_sum",
                                              chip |-> Head(chips) ])
         IN IF ~has_lookups(Head(chips)) /\ Head(opened_values).cumulative_sum # 0
            THEN observed
            ELSE observe_cumulative_sums(observed, Tail(chips), Tail(opened_values))

\* Verifier::verify_shard, the challenger it leaves (verifier.rs:74-101):
\* nothing is observed when the chip count check or the byte multiplicity
\* assertion stops the verification.
verify_shard_challenger(challenger, chips, shard_proof) ==
    IF Len(chips) # Len(shard_proof.opened_values) THEN challenger
    ELSE IF byte_lookup_mult_panics(chips, shard_proof.opened_values)
    THEN challenger
    ELSE LET main == observe(challenger, "main_commit")
             challenges == sample_ext_element(
                               sample_ext_element(main, "permutation_challenge"),
                               "permutation_challenge")
             permutation == observe(challenges, "permutation_commit")
             sums == observe_cumulative_sums(permutation, chips, shard_proof.opened_values)
         IN IF \E i \in 1..Len(chips) :
                   ~has_lookups(chips[i]) /\ shard_proof.opened_values[i].cumulative_sum # 0
            THEN sums
            ELSE LET alpha == sample_ext_element(sums, "alpha")
                     quotient == observe(alpha, "quotient_commit")
                 IN sample_ext_element(quotient, "zeta")

\* StarkMachine::verify, the challengers it leaves: the caller's has
\* observed the verifying key, and verify_shard works on a clone of it.
StarkMachine_verify_challengers(challenger, shard_proof) ==
    [ challenger |-> StarkVerifyingKey_observe_into(challenger),
      shard_challenger |->
          verify_shard_challenger(StarkVerifyingKey_observe_into(challenger),
                                  shard_chips_ordered(shard_proof.chip_ordering),
                                  shard_proof) ]

\* The proving flow (spec.md, "Proving flow", steps 3 to 8) on the chips of
\* a shard: the main commitment is absorbed, the permutation challenges
\* are sampled, the cumulative sums are absorbed, the permutation
\* commitment is absorbed, the constraint-folding challenge is sampled,
\* the quotient chunks are committed, and the out-of-domain point is
\* sampled.
MachineProver_challenger(challenger, chips) ==
    LET key == StarkProvingKey_observe_into(challenger)
        main == observe(key, "main_commit")
        challenges == sample_ext_element(
                          sample_ext_element(main, "permutation_challenge"),
                          "permutation_challenge")
        sums == challenges \o [ i \in 1..Len(chips) |->
                                  [op |-> "observe", value |-> "cumulative_sum",
                                   chip |-> chips[i]] ]
        permutation == observe(sums, "permutation_commit")
        alpha == sample_ext_element(permutation, "alpha")
        quotient == observe(alpha, "quotient_commit")
    IN sample_ext_element(quotient, "zeta")

\* Mutation of BfProver_verify_shard_proof: the shard proof is handed to the
\* machine verifier first.
BfProver_verify_machine_first(shard_proof) ==
    IF StarkMachine_verify(shard_proof) # Ok THEN StarkMachine_verify(shard_proof)
    ELSE IF ~ShardProof_contains_cpu(shard_proof) THEN Err("MissingCpuInFirstShard")
    ELSE Ok

\* BfProver::verify(proof, vk) on a shard proof.
BfProver_verify_shard_proof(shard_proof) ==
    IF ~ShardProof_contains_cpu(shard_proof) THEN Err("MissingCpuInFirstShard")
    ELSE IF ShardProof_log_degree_cpu(shard_proof) = None THEN Panic
    ELSE IF ShardProof_log_degree_cpu(shard_proof).val > MAX_CPU_LOG_DEGREE
    THEN [ tag |-> "Err", error |-> "CpuLogDegreeTooLarge",
           log |-> ShardProof_log_degree_cpu(shard_proof).val ]
    ELSE StarkMachine_verify(shard_proof)

\* The shard proofs a verifier may be handed: any ordering of some of the
\* chips Cpu, Program and Byte, any opened cumulative sums among 0, 1 and
\* -1 and log degrees at and above the bound, any outcome of the opening
\* argument, and possibly a constraint mismatch on the CPU chip.
ProofChipNames == {"Cpu", "Program", "Byte"}

ChipOrderings ==
    UNION { [S -> 0..(MaxOpenedChips - 1)] : S \in SUBSET ProofChipNames }

ChipOpenedValues ==
    [ cumulative_sum : {0, 1, KoalaBearOrder - 1},
      log_degree : {MAX_CPU_LOG_DEGREE, MAX_CPU_LOG_DEGREE + 1} ]

ShardProofs ==
    [ chip_ordering : ChipOrderings,
      opened_values : Strings(ChipOpenedValues, 0, MaxOpenedChips),
      opening_ok : BOOLEAN,
      ood_mismatch : {{}, {"Cpu"}} ]

InitVerify ==
    /\ phase = "proved"
    /\ code = <<>>
    /\ parse_result = NoResult
    /\ runtime = NoRuntime
    /\ run_result = "none"
    /\ proof \in ShardProofs
    /\ verify_result = NoResult

\* BfProver::verify, the challengers it leaves: the challenger is created
\* once the checks on the CPU chip have passed.
BfProver_verify_challengers(shard_proof) ==
    IF ~ShardProof_contains_cpu(shard_proof) THEN NoRuntime
    ELSE IF ShardProof_log_degree_cpu(shard_proof) = None THEN NoRuntime
    ELSE IF ShardProof_log_degree_cpu(shard_proof).val > MAX_CPU_LOG_DEGREE THEN NoRuntime
    ELSE StarkMachine_verify_challengers(<<>>, shard_proof)

\* BfProver::verify(proof, vk)
VerifyShardProof ==
    /\ phase = "proved"
    /\ verify_result' = BfProver_verify_shard_proof(proof)
    /\ runtime' = BfProver_verify_challengers(proof)
    /\ phase' = "verified"
    /\ UNCHANGED <<code, parse_result, run_result, proof>>

NextVerify == VerifyShardProof

SpecVerify == InitVerify /\ [][NextVerify]_vars

\* The shard proofs with log degrees a 64-bit shift cannot take: any
\* ordering of some of the chips, opened cumulative sums 0 and 1, and log
\* degrees at the bound and at the width of a u64.
WideOpenedValues ==
    [ cumulative_sum : {0, 1},
      log_degree : {MAX_CPU_LOG_DEGREE, 64} ]

WideShardProofs ==
    [ chip_ordering : ChipOrderings,
      opened_values : Strings(WideOpenedValues, 0, MaxOpenedChips),
      opening_ok : BOOLEAN,
      ood_mismatch : {{}, {"Cpu"}} ]

InitVerifyWide ==
    /\ phase = "proved"
    /\ code = <<>>
    /\ parse_result = NoResult
    /\ runtime = NoRuntime
    /\ run_result = "none"
    /\ proof \in WideShardProofs
    /\ verify_result = NoResult

SpecVerifyWide == InitVerifyWide /\ [][NextVerify]_vars

----------------------------------------------------------------------------
(* Long runs: executor.rs. The programs "+[]" and "-[]" never terminate:   *)
(* from the second cycle on the executor stays on the LoopEnd instruction, *)
(* which reads the cell at clk + 1 and jumps to itself.                    *)

\* The number of cycles after which the clock is 2^24.
ClockBoundCycles == 2^23

LoopSources == {<<"+", "[", "]">>, <<"-", "[", "]">>}

\* The executor of a looping source after cycles >= 2 cycles of
\* Executor::run, the events of these cycles left out of the record: the
\* cell holds the value the first instruction wrote, and its last access
\* is the read of the cycle before.
LoopRun(source, input, cycles) ==
    LET program == Program_from(source).instructions
        value == IF source[1] = "+" THEN 1 ELSE 255
    IN [ Executor_new(program, input) EXCEPT
           !.state.pc = 2,
           !.state.clk = 2 * cycles,
           !.state.global_clk = cycles,
           !.state.memory_access =
               U32(0) :> [value |-> value, timestamp |-> 2 * cycles - 1],
           !.memory_events =
               U32(0) :> [ addr |-> U32(0),
                           initial_mem_access |-> [value |-> 0, timestamp |-> 0],
                           final_mem_access |->
                               [value |-> value, timestamp |-> 2 * cycles - 1] ] ]

\* Under Spec, the run of a looping source is in the state LoopRun gives,
\* the record apart.
LoopRunIsReached ==
    phase = "running" /\ code \in LoopSources /\ runtime.state.global_clk >= 2 =>
        [runtime EXCEPT !.record = ExecutionRecord_new(runtime.program)]
            = LoopRun(code, runtime.state.input_stream, runtime.state.global_clk)

InitLongRun ==
    /\ phase = "running"
    /\ code \in LoopSources
    /\ parse_result = Program_from(code)
    /\ \E input \in InputStreams :
       \E cycles \in (ClockBoundCycles - LongRunCycles)..(ClockBoundCycles - 1) :
           runtime = LoopRun(code, input, cycles)
    /\ run_result = "none"
    /\ proof = NoProof
    /\ verify_result = "none"

\* One turn of the loop of Executor::run, late in a long run.
ExecuteLateCycle ==
    /\ phase = "running"
    /\ runtime.state.global_clk < ClockBoundCycles + LongRunCycles
    /\ \E r \in {execute_cycle(runtime)} :
         IF r.tag = "panic"
         THEN /\ phase' = "panicked"
              /\ run_result' = "panic"
              /\ UNCHANGED runtime
         ELSE /\ runtime' = r.self
              /\ phase' = IF r.done THEN "draining" ELSE "running"
              /\ UNCHANGED run_result
    /\ UNCHANGED <<code, parse_result, proof, verify_result>>

NextLongRun == ExecuteLateCycle

SpecLongRun == InitLongRun /\ [][NextLongRun]_vars

----------------------------------------------------------------------------
(* Dependency generation on arbitrary blu maps: record.rs, machine.rs.     *)
(* Each chip merges the blu maps of its chunks into a fresh output in the  *)
(* order the parallel iterator collected them, and the output is appended  *)
(* to the record.                                                          *)

\* A chip has at most MaxChunks chunks of events.
MaxChunks == 2
\* The events the blu maps of this specification range over.
BluEvents == {add_u8_range_check(1), add_u16_range_check(1)}

\* The blu maps a chunk can produce: the events it recorded, each counted
\* once; larger counts arise when the chunks of a chip are merged.
BluMaps ==
    UNION { [events -> {1}] : events \in SUBSET BluEvents }

\* The chips whose generate_dependencies merge blu maps.
DependencyChips == {"Cpu", "AddSub"}

InitDependencies ==
    /\ phase = "dependencies"
    /\ code = <<>>
    /\ parse_result = NoResult
    /\ runtime \in { [ blu_batches |-> blu_batches, byte_lookups |-> <<>>, merged |-> <<>> ] :
                       blu_batches \in [DependencyChips -> Strings(BluMaps, 0, MaxChunks)] }
    /\ run_result = "none"
    /\ proof = NoProof
    /\ verify_result = "none"

\* One chip of StarkMachine::generate_dependencies: the chip's batches, in
\* the order collected, are merged into a fresh output by
\* add_byte_lookup_events_from_maps, and record.append(output) follows.
GenerateDependencies(chip, collected) ==
    /\ phase = "dependencies"
    /\ \A i \in DOMAIN runtime.merged : runtime.merged[i] # chip
    /\ runtime' =
         [ runtime EXCEPT
             !.byte_lookups =
                 ExecutionRecord_append(
                     @, add_byte_lookup_events_from_maps(
                            <<>>, [i \in DOMAIN collected |->
                                     runtime.blu_batches[chip][collected[i]]])),
             !.merged = Append(@, chip) ]
    /\ UNCHANGED <<phase, code, parse_result, run_result, proof, verify_result>>

\* The end of the for_each over the chips.
DependenciesDone ==
    /\ phase = "dependencies"
    /\ Len(runtime.merged) = Cardinality(DependencyChips)
    /\ phase' = "merged"
    /\ UNCHANGED <<code, parse_result, runtime, run_result, proof, verify_result>>

NextDependencies ==
    \/ \E chip \in DependencyChips :
          \E collected \in Permutations(DOMAIN runtime.blu_batches[chip]) :
              GenerateDependencies(chip, collected)
    \/ DependenciesDone

SpecDependencies == InitDependencies /\ [][NextDependencies]_vars

----------------------------------------------------------------------------
(* Parallel trace generation: cpu/trace.rs, memory/memory.rs,              *)
(* jump/trace.rs. The zeroed matrix is cut into chunks of chunk_size rows, *)
(* the workers of the pool take the chunks one after another from the      *)
(* iterator par_bridge shares among them, and each fills the rows of the   *)
(* chunk it holds in order; the workers interleave.                        *)

\* A chip has at most MaxTraceEvents events.
MaxTraceEvents == 4
\* The thread pool has at most MaxThreads workers.
MaxThreads == 2

\* The chips whose generate_trace is followed: the CPU chip, the Memory chip
\* (two entries a row) and the Jump chip.
TraceChips == {"Cpu", "Memory", "Jump"}

\* NUM_MEMORY_ENTRIES_PER_ROW for the Memory chip, one event a row
\* otherwise.
entries_per_row(chip) == IF chip = "Memory" THEN 2 ELSE 1

\* nb_rows: the rows the events fill, len.div_ceil(entries per row).
trace_nb_rows(chip, len) == (len + entries_per_row(chip) - 1) \div entries_per_row(chip)

\* padded_nb_rows: the CPU chip pads with usize::next_power_of_two, the
\* others with utils::next_power_of_two.
trace_padded_nb_rows(chip, len) ==
    IF chip = "Cpu" THEN next_power_of_two(len)
    ELSE utils_next_power_of_two(trace_nb_rows(chip, len))

\* chunk_size: max(len / num_cpus, 1), for the Memory chip
\* max((nb_rows + 1) / num_cpus, 1).
trace_chunk_size(chip, len, num_cpus) ==
    LET per_cpu == IF chip = "Memory"
                   THEN (trace_nb_rows(chip, len) + 1) \div num_cpus
                   ELSE len \div num_cpus
    IN IF per_cpu >= 1 THEN per_cpu ELSE 1

\* values.chunks_mut(chunk_size * NUM_COLS): the number of chunks, and the
\* rows of chunk i (counted from 0), the last chunk possibly shorter.
trace_num_chunks(padded_nb_rows, chunk_size) ==
    (padded_nb_rows + chunk_size - 1) \div chunk_size

trace_chunk_len(padded_nb_rows, chunk_size, i) ==
    IF (i + 1) * chunk_size <= padded_nb_rows THEN chunk_size
    ELSE padded_nb_rows - i * chunk_size

\* Mutation of trace_row_idx: the index within the chunk is taken for the
\* index of the event.
trace_row_idx_in_chunk(i, chunk_size, j) == j

\* idx = i * chunk_size + j: the event index of row j of chunk i.
trace_row_idx(i, chunk_size, j) == i * chunk_size + j

\* The row a worker writes for idx: entry k holds the event at
\* idx * entries + k when there is one (event_to_row of that event, here the
\* event itself) and stays zero otherwise.
trace_row(chip, events, idx) ==
    [ k \in 1..entries_per_row(chip) |->
        IF idx * entries_per_row(chip) + (k - 1) < Len(events)
        THEN events[idx * entries_per_row(chip) + (k - 1) + 1]
        ELSE 0 ]

\* zeroed_f_vec: the matrix before any worker ran.
zeroed_rows(chip, padded_nb_rows) ==
    [r \in 1..padded_nb_rows |-> [k \in 1..entries_per_row(chip) |-> 0]]

\* The events of a record, told apart by their position.
TraceEvents == {[k \in 1..len |-> k] : len \in 1..MaxTraceEvents}

\* No chunk is in a worker's hands.
Idle == [tag |-> "Idle"]

InitTrace ==
    /\ phase = "tracing"
    /\ code = <<>>
    /\ parse_result = NoResult
    /\ \E chip \in TraceChips, events \in TraceEvents,
          num_cpus \in 1..MaxNumCpus, num_threads \in 1..MaxThreads :
          runtime =
            [ chip |-> chip, events |-> events, num_cpus |-> num_cpus,
              values |-> zeroed_rows(chip, trace_padded_nb_rows(chip, Len(events))),
              next_chunk |-> 0,
              workers |-> [w \in 1..num_threads |-> Idle],
              written |-> [r \in 1..trace_padded_nb_rows(chip, Len(events)) |-> {}] ]
    /\ run_result = "none"
    /\ proof = NoProof
    /\ verify_result = "none"

\* par_bridge: a worker that holds no unfinished chunk takes the next
\* chunk of the enumerated iterator, which the workers share.
TakeChunk(w) ==
    /\ phase = "tracing"
    /\ \/ runtime.workers[w] = Idle
       \/ /\ runtime.workers[w] # Idle
          /\ runtime.workers[w].j =
                 trace_chunk_len(Len(runtime.values),
                                 trace_chunk_size(runtime.chip, Len(runtime.events),
                                                  runtime.num_cpus),
                                 runtime.workers[w].i)
    /\ runtime.next_chunk <
           trace_num_chunks(Len(runtime.values),
                            trace_chunk_size(runtime.chip, Len(runtime.events),
                                             runtime.num_cpus))
    /\ runtime' = [ runtime EXCEPT
                      !.workers[w] = [tag |-> "Chunk", i |-> runtime.next_chunk, j |-> 0],
                      !.next_chunk = @ + 1 ]
    /\ UNCHANGED <<phase, code, parse_result, run_result, proof, verify_result>>

\* The matrix and the record of writers after the worker of chunk i handled
\* row j of its chunk: the row i * chunk_size + j of the matrix is built for
\* idx when there is an event for it, and is left as it is otherwise.
write_row(self, i, j, chunk_size, idx) ==
    [ self EXCEPT
        !.values[i * chunk_size + j + 1] =
            IF idx * entries_per_row(self.chip) < Len(self.events)
            THEN trace_row(self.chip, self.events, idx) ELSE @,
        !.written[i * chunk_size + j + 1] =
            IF idx * entries_per_row(self.chip) < Len(self.events)
            THEN @ \cup {i} ELSE @ ]

\* A worker handles the next row of the chunk it holds.
WriteRow(w) ==
    /\ phase = "tracing"
    /\ runtime.workers[w] # Idle
    /\ runtime.workers[w].j <
           trace_chunk_len(Len(runtime.values),
                           trace_chunk_size(runtime.chip, Len(runtime.events),
                                            runtime.num_cpus),
                           runtime.workers[w].i)
    /\ \E chunk_size \in {trace_chunk_size(runtime.chip, Len(runtime.events),
                                            runtime.num_cpus)} :
          runtime' =
            [ write_row(runtime, runtime.workers[w].i, runtime.workers[w].j, chunk_size,
                        trace_row_idx(runtime.workers[w].i, chunk_size,
                                      runtime.workers[w].j))
                EXCEPT !.workers[w].j = @ + 1 ]
    /\ UNCHANGED <<phase, code, parse_result, run_result, proof, verify_result>>

\* Every chunk was taken and every worker has finished the chunk it held:
\* the matrix is returned.
TraceDone ==
    /\ phase = "tracing"
    /\ runtime.next_chunk =
           trace_num_chunks(Len(runtime.values),
                            trace_chunk_size(runtime.chip, Len(runtime.events),
                                             runtime.num_cpus))
    /\ \A w \in DOMAIN runtime.workers :
          runtime.workers[w] # Idle =>
              runtime.workers[w].j =
                  trace_chunk_len(Len(runtime.values),
                                  trace_chunk_size(runtime.chip, Len(runtime.events),
                                                   runtime.num_cpus),
                                  runtime.workers[w].i)
    /\ phase' = "generated"
    /\ UNCHANGED <<code, parse_result, runtime, run_result, proof, verify_result>>

NextTrace ==
    \/ \E w \in DOMAIN runtime.workers : TakeChunk(w)
    \/ \E w \in DOMAIN runtime.workers : WriteRow(w)
    \/ TraceDone

SpecTrace == InitTrace /\ [][NextTrace]_vars

----------------------------------------------------------------------------
(* Vocabulary of the properties.                                           *)

\* The phases in which the executor exists.
RunPhases == {"running", "draining", "returned", "panicked", "proved", "verified"}

is_kept(c) == ~is_skipped(c)

\* The source with the skipped whitespace removed.
Strip(src) == SelectSeq(src, is_kept)

\* Opening minus closing brackets among s[i..j].
Depth(s, i, j) ==
    Cardinality({k \in i..j : s[k] = "["}) - Cardinality({k \in i..j : s[k] = "]"})

\* Every `]` closes an open `[` and every `[` is closed.
Balanced(s) ==
    /\ \A j \in 1..Len(s) : Depth(s, 1, j) >= 0
    /\ Depth(s, 1, Len(s)) = 0

\* The position (1-based) of the `]` matching the `[` at position i.
MatchingClose(s, i) ==
    CHOOSE j \in (i + 1)..Len(s) :
        /\ Depth(s, i, j) = 0
        /\ \A k \in i..(j - 1) : Depth(s, i, k) > 0

\* The source has a character that is neither an opcode nor whitespace.
HasUnknownChar(src) == \E k \in 1..Len(src) : src[k] \notin OpcodeChars \cup Whitespace

is_input_event(e) == e.opcode = "Input"

\* The executor stands at a `,` with no unread input byte.
InputUnderflow(self) ==
    /\ self.state.pc < Len(self.program)
    /\ self.program[self.state.pc + 1].opcode = "Input"
    /\ self.state.input_stream_ptr >= Len(self.state.input_stream)

----------------------------------------------------------------------------
(* Properties.                                                             *)

\* C1: for every program and input on which execution succeeds, verifying
\* the proof that prove returns gives Ok.
C1_VerifyOfProveIsOk ==
    (phase = "verified" /\ run_result = "Ok") => verify_result = "Ok"

\* C2: prove runs the executor before proving: the proved record is the
\* executed record, public_values is the output of the execution and cycles
\* is the executor's global_clk at termination.
C2_ProveRunsExecutor ==
    phase \in {"proved", "verified"} =>
        /\ proof.proof.record.cpu_events = runtime.record.cpu_events
        /\ proof.public_values = runtime.state.output_stream
        /\ proof.cycles = runtime.state.global_clk

\* C3: the k-th executed `,` writes input[k-1] and advances the input
\* pointer by one, and nothing else moves the pointer: the pointer is the
\* number of `,` executed, and the k-th of them moved the k-th input byte.
C3_InputConsumedInOrder ==
    phase \in RunPhases =>
        LET inputs == SelectSeq(runtime.record.io_events, is_input_event) IN
        /\ runtime.state.input_stream_ptr = Len(inputs)
        /\ \A k \in 1..Len(inputs) :
              /\ k <= Len(runtime.state.input_stream)
              /\ inputs[k].mv = runtime.state.input_stream[k]

\* C4: a run that ends at a `,` with no unread input byte returns Err: it
\* neither panics nor returns Ok.
C4_InputUnderflowIsErr ==
    (phase \in RunPhases /\ run_result # "none" /\ InputUnderflow(runtime))
        => run_result = "Err"

\* C5 as stated: in a balanced source each `[` has op_a one past its
\* matching `]`, and each `]` has op_a one past its matching `[`.
C5_BothBracketsOnePast ==
    (phase # "source" /\ parse_result.tag = "Ok" /\ Balanced(Strip(code))) =>
        LET s == Strip(code) IN
        \A i \in 1..Len(s) :
            s[i] = "[" =>
                /\ parse_result.instructions[i].op_a = (MatchingClose(s, i) - 1) + 1
                /\ parse_result.instructions[MatchingClose(s, i)].op_a = (i - 1) + 1

\* C5 amended: in a balanced source each `[` has op_a equal to the index of
\* its matching `]` itself, and each `]` has op_a one past its matching `[`
\* (0-based instruction indices, whitespace removed, nesting respected).
C5_OpenAtCloseAndCloseOnePast ==
    (phase # "source" /\ parse_result.tag = "Ok" /\ Balanced(Strip(code))) =>
        LET s == Strip(code) IN
        \A i \in 1..Len(s) :
            s[i] = "[" =>
                /\ parse_result.instructions[i].op_a = MatchingClose(s, i) - 1
                /\ parse_result.instructions[MatchingClose(s, i)].op_a = (i - 1) + 1

\* A balanced source with a loop nested inside another loop has been parsed.
C5_NestedLoopsParsed ==
    /\ phase = "parsed"
    /\ parse_result.tag = "Ok"
    /\ Balanced(Strip(code))
    /\ \E i \in 1..Len(Strip(code)) :
          /\ Strip(code)[i] = "["
          /\ \E k \in (i + 1)..(MatchingClose(Strip(code), i) - 2) :
                /\ Strip(code)[k] = "["
                /\ MatchingClose(Strip(code), k) < MatchingClose(Strip(code), i)

\* C6: Program::from returns Err for every source with unbalanced brackets.
C6_UnbalancedIsErr ==
    (phase # "source" /\ ~Balanced(Strip(code))) => parse_result.tag = "Err"

\* C7: Program::from returns Err for every source with a character that is
\* neither an opcode nor ignored whitespace.
C7_UnknownCharIsErr ==
    (phase # "source" /\ HasUnknownChar(code)) => parse_result.tag = "Err"

\* C8: whenever an instruction is about to be fetched pc < len; a run that
\* has returned returned Ok with pc = len; and the run of the empty program
\* returns Ok.
C8_PcValidUntilTermination ==
    /\ phase = "running" => runtime.state.pc < Len(runtime.program)
    /\ phase = "returned" =>
          run_result = "Ok" /\ runtime.state.pc = Len(runtime.program)
    /\ (phase \in RunPhases /\ run_result # "none" /\ runtime.program = <<>>) =>
          run_result = "Ok" /\ runtime.state.pc = 0

\* C9: after N cycles there are N CpuEvents, global_clk = N, the i-th event
\* (i = 0 .. N-1) carries clk = 2i, and the clock stands at 2N.
C9_ClkSteps ==
    phase \in RunPhases =>
        /\ Len(runtime.record.cpu_events) = runtime.state.global_clk
        /\ \A i \in 1..Len(runtime.record.cpu_events) :
              runtime.record.cpu_events[i].clk = 2 * (i - 1)
        /\ runtime.state.clk = 2 * runtime.state.global_clk

\* A run has returned in which a `]` jumped back and an ALU instruction ran.
C9_LoopRunReturned ==
    /\ phase = "returned"
    /\ runtime.state.global_clk >= 5
    /\ runtime.record.add_events # <<>>
    /\ \E i \in 1..Len(runtime.record.cpu_events) :
          runtime.record.cpu_events[i].next_pc < runtime.record.cpu_events[i].pc

\* The access records a CpuEvent carries.
AccessRecords(event) ==
    {a.val : a \in {b \in {event.mv_access, event.next_mv_access} : b.tag = "Some"}}

\* C10: every read and write record has timestamp > prev_timestamp; a read
\* is stamped clk+1, an ALU write clk+2, an input write clk+1; and no cell
\* is stamped later than the clock, so its next access is stamped later.
C10_TimestampsIncrease ==
    phase \in RunPhases =>
        /\ \A i \in 1..Len(runtime.record.cpu_events) :
              LET event == runtime.record.cpu_events[i] IN
              /\ \A r \in AccessRecords(event) : r.timestamp > r.prev_timestamp
              /\ event.mv_access.tag = "Some" =>
                    event.mv_access.val.timestamp = event.clk + 1
              /\ event.next_mv_access.tag = "Some" =>
                    /\ event.next_mv_access.val.tag = "Write"
                    /\ event.next_mv_access.val.timestamp = event.clk + 2
        /\ \A addr \in DOMAIN runtime.state.memory_access :
              runtime.state.memory_access[addr].timestamp <= runtime.state.clk
        /\ \A addr \in DOMAIN runtime.memory_events :
              runtime.memory_events[addr].final_mem_access.timestamp
                  > runtime.memory_events[addr].initial_mem_access.timestamp

\* A run has returned with a first access to a fresh cell, a read of a cell
\* written by the cycle before, and an input write over a stamped cell.
C10_FreshAndRepeatedAccesses ==
    /\ phase = "returned"
    /\ \E i, j, k \in 1..Len(runtime.record.cpu_events) :
          LET a == runtime.record.cpu_events[i].mv_access
              b == runtime.record.cpu_events[j].mv_access
              c == runtime.record.cpu_events[k].mv_access
          IN /\ a.tag = "Some" /\ a.val.prev_timestamp = 0
             /\ b.tag = "Some" /\ b.val.tag = "Read"
             /\ b.val.prev_timestamp = runtime.record.cpu_events[j].clk
             /\ c.tag = "Some" /\ c.val.tag = "Write" /\ c.val.prev_timestamp > 0

\* The cycles (indices of CpuEvents) that accessed the cell at addr: an
\* instruction that accesses memory accesses the cell at its mp.
AccessCycles(events, addr) ==
    {i \in 1..Len(events) : events[i].mp = addr /\ AccessRecords(events[i]) # {}}

Min(S) == CHOOSE x \in S : \A y \in S : x <= y

Max(S) == CHOOSE x \in S : \A y \in S : x >= y

\* The first and the last access record of a cycle that accessed memory.
FirstAccess(event) == event.mv_access.val

LastAccess(event) ==
    IF event.next_mv_access.tag = "Some" THEN event.next_mv_access.val
    ELSE event.mv_access.val

\* The value a record found in the cell: a write carries it, a read left it.
PrevValue(r) == IF r.tag = "Write" THEN r.prev_value ELSE r.value

\* C11: when run() has returned, cpu_memory_access has exactly one
\* MemoryEvent per address accessed; its initial record is what the first
\* access to the address found, which is (0, 0); its final record is the
\* (value, timestamp) of the last access; and the memory-event map is empty.
C11_OneMemoryEventPerAddress ==
    phase = "returned" =>
        LET events == runtime.record.cpu_events
            mem == runtime.record.cpu_memory_access
        IN /\ runtime.memory_events = EmptyMap
           /\ \A i, j \in 1..Len(mem) : mem[i].addr = mem[j].addr => i = j
           /\ {mem[i].addr : i \in 1..Len(mem)}
                 = {events[i].mp : i \in {k \in 1..Len(events) : AccessRecords(events[k]) # {}}}
           /\ \A i \in 1..Len(mem) :
                 LET first == FirstAccess(events[Min(AccessCycles(events, mem[i].addr))])
                     last == LastAccess(events[Max(AccessCycles(events, mem[i].addr))])
                 IN /\ mem[i].initial_mem_access
                          = [value |-> PrevValue(first), timestamp |-> first.prev_timestamp]
                    /\ mem[i].initial_mem_access = [value |-> 0, timestamp |-> 0]
                    /\ mem[i].final_mem_access
                          = [value |-> last.value, timestamp |-> last.timestamp]

\* A run has returned that accessed two cells, one of them read and then
\* written to a non-zero value.
C11_TwoCellsDrained ==
    /\ phase = "returned"
    /\ Len(runtime.record.cpu_memory_access) >= 2
    /\ \E i \in 1..Len(runtime.record.cpu_memory_access) :
          LET m == runtime.record.cpu_memory_access[i] IN
          /\ m.final_mem_access.timestamp >= 2
          /\ m.final_mem_access.value # 0

\* The value of the cell at addr: 0 until the cell is first accessed.
CellValue(self, addr) == entry_or_insert(self.state.memory_access, addr).value

\* The step is a cycle of the executor that did not panic.
CycleStep == phase = "running" /\ phase' \in {"running", "draining"}

\* The instruction the next cycle fetches.
Fetched == runtime.program[runtime.state.pc + 1]

\* C12: a cycle that executes `.` appends to output_stream exactly the
\* value the cell at mem_ptr had before the cycle and leaves that value
\* unchanged; every other step leaves output_stream as it is.
C12_OutputAppendsCell ==
    [][ /\ (CycleStep /\ Fetched.opcode = "Output") =>
              /\ runtime'.state.output_stream
                    = Append(runtime.state.output_stream,
                             CellValue(runtime, runtime.state.mem_ptr))
              /\ CellValue(runtime', runtime.state.mem_ptr)
                    = CellValue(runtime, runtime.state.mem_ptr)
        /\ (CycleStep /\ Fetched.opcode # "Output") =>
              runtime'.state.output_stream = runtime.state.output_stream
        /\ (phase \in RunPhases /\ phase # "running") =>
              runtime'.state.output_stream = runtime.state.output_stream
      ]_vars

\* A run has returned that output two different bytes.
C12_TwoBytesOutput ==
    /\ phase = "returned"
    /\ Len(runtime.state.output_stream) >= 2
    /\ runtime.state.output_stream[1] # runtime.state.output_stream[2]

\* The CpuEvent the step pushed.
Pushed == runtime'.record.cpu_events[Len(runtime'.record.cpu_events)]

\* The cells of the executor other than addr are the same after the step.
OtherCellsUnchanged(addr) ==
    /\ DOMAIN runtime'.state.memory_access = DOMAIN runtime.state.memory_access \cup {addr}
    /\ \A a \in DOMAIN runtime.state.memory_access \ {addr} :
          runtime'.state.memory_access[a] = runtime.state.memory_access[a]

\* C13: a cycle that executes `+` (resp. `-`) reads the cell at mem_ptr at
\* timestamp clk+1 and writes (mv + 1) mod 256 (resp. (mv - 1) mod 256) to
\* it at timestamp clk+2, and no other cell changes.
C13_AluWrapsMod256 ==
    [][ (CycleStep /\ Fetched.opcode \in {"Add", "Sub"}) =>
            LET mv == CellValue(runtime, runtime.state.mem_ptr)
                clk == runtime.state.clk
                next_mv == IF Fetched.opcode = "Add" THEN (mv + 1) % 256
                           ELSE (mv - 1) % 256
            IN /\ mv = 255 /\ Fetched.opcode = "Add" => next_mv = 0
               /\ mv = 0 /\ Fetched.opcode = "Sub" => next_mv = 255
               /\ Pushed.mv_access.val.tag = "Read"
               /\ Pushed.mv_access.val.value = mv
               /\ Pushed.mv_access.val.timestamp = clk + 1
               /\ Pushed.next_mv_access.val.tag = "Write"
               /\ Pushed.next_mv_access.val.value = next_mv
               /\ Pushed.next_mv_access.val.timestamp = clk + 2
               /\ Pushed.mv = mv /\ Pushed.next_mv = next_mv
               /\ runtime'.state.memory_access[runtime.state.mem_ptr]
                     = [value |-> next_mv, timestamp |-> clk + 2]
               /\ runtime'.state.mem_ptr = runtime.state.mem_ptr
               /\ OtherCellsUnchanged(runtime.state.mem_ptr)
      ]_vars

\* A run has returned in which `-` took a cell from 0 to 255 and `+` took a
\* cell from 255 to 0.
C13_BothWrapsHappened ==
    /\ phase = "returned"
    /\ \E i, j \in 1..Len(runtime.record.add_events) :
          /\ runtime.record.add_events[i].opcode = "Sub"
          /\ runtime.record.add_events[i].mv = 0
          /\ runtime.record.add_events[i].mv_next = 255
          /\ runtime.record.add_events[j].opcode = "Add"
          /\ runtime.record.add_events[j].mv = 255
          /\ runtime.record.add_events[j].mv_next = 0

\* The values of all cells are the same after the step.
CellValuesUnchanged ==
    \A a \in DOMAIN runtime'.state.memory_access :
        CellValue(runtime', a) = CellValue(runtime, a)

\* C14: a cycle that executes `[` sets next_pc (and pc) to op_a when the
\* cell at mem_ptr is 0 and to pc+1 otherwise; one that executes `]` sets
\* it to op_a when the cell is non-zero and to pc+1 otherwise; neither
\* changes a cell's value or mem_ptr.
C14_JumpTargets ==
    [][ (CycleStep /\ Fetched.opcode \in {"LoopStart", "LoopEnd"}) =>
            LET mv == CellValue(runtime, runtime.state.mem_ptr)
                jumps == IF Fetched.opcode = "LoopStart" THEN mv = 0 ELSE mv # 0
                next_pc == IF jumps THEN Fetched.op_a ELSE runtime.state.pc + 1
            IN /\ Pushed.next_pc = next_pc
               /\ Pushed.pc = runtime.state.pc
               /\ runtime'.state.pc = next_pc
               /\ runtime'.state.mem_ptr = runtime.state.mem_ptr
               /\ CellValuesUnchanged
      ]_vars

\* A run is under way in which a `[` jumped, a `[` fell through, a `]`
\* jumped and a `]` fell through.
C14_AllFourOutcomes ==
    /\ phase = "running"
    /\ \E i, j, k, l \in 1..Len(runtime.record.jump_events) :
          LET e == runtime.record.jump_events IN
          /\ e[i].opcode = "LoopStart" /\ e[i].mv = 0
          /\ e[j].opcode = "LoopStart" /\ e[j].mv # 0
          /\ e[k].opcode = "LoopEnd" /\ e[k].mv # 0
          /\ e[l].opcode = "LoopEnd" /\ e[l].mv = 0

\* C15: in a balanced program, when `[` is executed on a zero cell the
\* next cycle executes its matching `]`, which reads the same zero and
\* passes control one past itself: two cycles for the loop, none of them in
\* the body, no cell written.  The program "[----]" returns with
\* global_clk = 2, pc = 6 and every cell still 0.
C15_ZeroCellSkipsLoop ==
    (phase \in RunPhases /\ Balanced(Strip(code))) =>
        LET events == runtime.record.cpu_events
            s == Strip(code)
        IN /\ \A i \in 1..Len(events) :
                 (s[events[i].pc + 1] = "[" /\ events[i].mv = 0) =>
                     LET close == MatchingClose(s, events[i].pc + 1) - 1 IN
                     /\ events[i].next_pc = close
                     /\ phase = "returned" => i < Len(events)
                     /\ i < Len(events) =>
                           /\ events[i + 1].pc = close
                           /\ events[i + 1].mv = 0
                           /\ events[i + 1].next_pc = close + 1
                           /\ events[i + 1].mv_access.val.tag = "Read"
                           /\ events[i + 1].next_mv_access = None
           /\ (phase = "returned" /\ code = <<"[", "-", "-", "-", "-", "]">>) =>
                 /\ runtime.state.global_clk = 2
                 /\ runtime.state.pc = 6
                 /\ \A a \in DOMAIN runtime.state.memory_access :
                       runtime.state.memory_access[a].value = 0

\* The run of "[----]" has returned.
C15_TestJmpRunReturned ==
    /\ phase = "returned"
    /\ code = <<"[", "-", "-", "-", "-", "]">>
    /\ runtime.record.jump_events # <<>>

\* The memory pointer x, a u32 in limbs, is within the 31-bit range.
In31Bits(x) == x[1] < 2^15

\* C16: a run returns Ok only if the memory pointer never wrapped: no `<`
\* was executed with mem_ptr = 0 and no `>` took mem_ptr out of the 31-bit
\* range.
C16_WrappedPointerFailsRun ==
    (phase \in RunPhases /\ run_result = "Ok") =>
        \A i \in 1..Len(runtime.record.memory_instr_events) :
            LET e == runtime.record.memory_instr_events[i] IN
            /\ e.opcode = "MemStepBackward" => e.mp # U32(0)
            /\ e.opcode = "MemStepForward" => In31Bits(e.next_mp)

\* C17: two runs on the same program and input produce the same output
\* stream and the same record, field for field: a cycle has one outcome,
\* and whatever order the memory-event map is drained in gives the record
\* this run got.
C17_RunIsDeterministic ==
    [][ /\ CycleStep => runtime' = execute_cycle(runtime).self
        /\ phase = "draining" =>
              \A order \in Orders(DOMAIN runtime.memory_events) :
                  /\ runtime'.record = drain_memory_events(runtime, order).record
                  /\ runtime'.state.output_stream = runtime.state.output_stream
      ]_vars

\* The program is one that Program::from returns.
IsParsedProgram(instructions) ==
    \E src \in Strings(OpcodeChars, 0, MaxProgramLen) :
        Program_from(src) = [tag |-> "Ok", instructions |-> instructions]

\* C18 as stated: for every Program p, Program::from(render(p)) is Ok(p),
\* opcodes and op_a values included.
C18_RoundTripEveryProgram ==
    phase = "parsed" =>
        parse_result = [tag |-> "Ok", instructions |-> runtime.program]

\* C18 amended: for every Program p that Program::from returns,
\* Program::from(render(p)) is Ok(p), opcodes and op_a values included.
C18_RoundTripParsedPrograms ==
    (phase = "parsed" /\ IsParsedProgram(runtime.program)) =>
        parse_result = [tag |-> "Ok", instructions |-> runtime.program]

\* The program of "[]" has been rendered and parsed again.
C18_LoopRoundTripped ==
    /\ phase = "parsed"
    /\ runtime.program = Program_from(<<"[", "]">>).instructions
    /\ code = <<"[", "]">>
    /\ parse_result.tag = "Ok"

\* C19: in the Program chip's traces of an executed record, the
\* multiplicity in the row whose preprocessed pc is p is the number of
\* CpuEvents with pc = p, for every p below the program's length, and 0 on
\* the padding rows.
C19_ProgramMultiplicities ==
    phase = "returned" =>
        LET prep == ProgramChip_generate_preprocessed_trace(runtime.record.program)
            main == ProgramChip_generate_trace(runtime.record)
        IN /\ Len(main) = Len(prep)
           /\ \A i \in 1..Len(prep) :
                 IF prep[i].is_padding
                 THEN main[i].multiplicity = 0
                 ELSE main[i].multiplicity
                         = Cardinality({k \in 1..Len(runtime.record.cpu_events) :
                                           runtime.record.cpu_events[k].pc = prep[i].pc})

\* The multiplicity with which a set of lookups carries the tuple values.
bus_multiplicity(lookups, values) ==
    Cardinality({l \in lookups : l.values = values /\ l.multiplicity = 1})

\* The Memory bus of a record balances: every tuple is sent as many times
\* as it is received.
bus_balances(sends, receives) ==
    \A l \in sends \cup receives :
        bus_multiplicity(sends, l.values) = bus_multiplicity(receives, l.values)

\* C20: after every successful execution the Memory bus balances: the
\* tuples the CPU rows and the Memory chip send (previous clk, address and
\* value of each access; final clk and value of each touched address) are,
\* as a multiset, the tuples they receive (clk, address and value of each
\* access; initial clk and value of each touched address).
C20_MemoryBusBalances ==
    (phase = "returned" /\ run_result = "Ok") =>
        bus_balances(memory_bus_sends(runtime.record), memory_bus_receives(runtime.record))

\* The lookups of one kind among a set of lookups.
of_kind(lookups, kind) == {l \in lookups : l.kind = kind}

InstructionBusKinds == {"Alu", "Jump", "MemInstr", "IO"}

\* C21: after a successful execution every real CPU row sends exactly one
\* lookup with multiplicity 1 to the specialised chips (on the Alu, Jump,
\* MemInstr or IO bus), and on each of these four buses the tuples sent
\* are, as a multiset, the tuples the specialised chips receive.
C21_OneDispatchPerRealRow ==
    (phase = "returned" /\ run_result = "Ok") =>
        /\ \A i \in DOMAIN cpu_trace(runtime.record) :
              cpu_trace(runtime.record)[i].is_real = 1 =>
                  Cardinality({ l \in CpuChip_eval_instruction_sends(cpu_trace(runtime.record)[i]) :
                                    l.multiplicity = 1 }) = 1
        /\ \A kind \in InstructionBusKinds :
              bus_balances(of_kind(instruction_bus_sends(runtime.record), kind),
                           of_kind(instruction_bus_receives(runtime.record), kind))

\* The lookups among those of an AddSub row that are received with
\* multiplicity 1.
RealReceives(local) ==
    { AddSubChip_eval_receives(local)[k] : k \in {k \in 1..2 :
          AddSubChip_eval_receives(local)[k].multiplicity = 1} }

\* C22: after a successful execution, the AddSub row of every AluEvent
\* proves the event's own relation: for Add the addition input is event.mv
\* and add_operation.value is event.next_mv, for Sub the input is
\* event.next_mv and the value is event.mv; and the one tuple the row
\* receives on the Alu bus carries the event's (next_mv, mv).
C22_AddSubRowProvesItsEvent ==
    (phase = "returned" /\ run_result = "Ok") =>
        \A i \in 1..Len(runtime.record.add_events \o runtime.record.sub_events) :
            LET event == (runtime.record.add_events \o runtime.record.sub_events)[i]
                local == AddSubChip_event_to_row(event)
            IN /\ AddSubChip_generate_trace(runtime.record)[i] = local
               /\ IF event.opcode = "Add"
                  THEN local.next_mv = event.mv
                       /\ local.add_operation.value = event.mv_next
                  ELSE local.next_mv = event.mv_next
                       /\ local.add_operation.value = event.mv
               /\ \E l \in RealReceives(local) :
                     /\ RealReceives(local) = {l}
                     /\ l.values[4] = event.mv_next
                     /\ l.values[5] = event.mv

\* BfProver::verify has handed the proof to the machine verifier.
VerifyShardCalled ==
    /\ phase = "verified"
    /\ ShardProof_contains_cpu(proof)
    /\ ShardProof_log_degree_cpu(proof) # None
    /\ ShardProof_log_degree_cpu(proof).val <= MAX_CPU_LOG_DEGREE

InvalidShardProof(inner) == [tag |-> "Err", error |-> "InvalidShardProof", inner |-> inner]

\* The checks verify_shard makes before it compares the sum pass: as many
\* opened chips as chips, the preprocessed chips are in the ordering within
\* the opened values, the opening argument verifies and no constraint
\* evaluation mismatches.
EarlierChecksPass ==
    /\ Cardinality(DOMAIN proof.chip_ordering) = Len(proof.opened_values)
    /\ \A name \in vk_chip_information :
          /\ name \in DOMAIN proof.chip_ordering
          /\ proof.chip_ordering[name] < Len(proof.opened_values)
    /\ proof.opening_ok
    /\ proof.ood_mismatch \cap DOMAIN proof.chip_ordering = {}

C24_CpuChecksBeforeMachineVerifier ==
    phase = "verified" =>
        IF ~ShardProof_contains_cpu(proof)
        THEN verify_result = Err("MissingCpuInFirstShard")
        ELSE IF ShardProof_log_degree_cpu(proof) = None THEN verify_result = Panic
        ELSE IF ShardProof_log_degree_cpu(proof).val > MAX_CPU_LOG_DEGREE
        THEN verify_result = [ tag |-> "Err", error |-> "CpuLogDegreeTooLarge",
                                log |-> ShardProof_log_degree_cpu(proof).val ]
        ELSE /\ verify_result = StarkMachine_verify(proof)
             /\ verify_result.tag = "Err" => verify_result.error = "InvalidShardProof"

\* A proof whose Cpu log degree is above the bound, and that the machine
\* verifier would also have rejected, was rejected with
\* CpuLogDegreeTooLarge.
C24_TooLargeBeforeShardErrors ==
    /\ phase = "verified"
    /\ ShardProof_contains_cpu(proof)
    /\ StarkMachine_verify(proof).tag = "Err"
    /\ verify_result = [ tag |-> "Err", error |-> "CpuLogDegreeTooLarge",
                         log |-> MAX_CPU_LOG_DEGREE + 1 ]

\* C25: after a successful execution, for every executed `[` or `]` cycle
\* the JumpEvent's dst is the instruction's operand op_a, taken or not, and
\* the tuple the Jump chip's row for the cycle receives is
\* (pc, next_pc, opcode, op_a, mv), what the CPU is to send for the cycle.
C25_JumpDstIsOperand ==
    (phase = "returned" /\ run_result = "Ok") =>
        \A i \in 1..Len(runtime.record.jump_events) :
            LET event == runtime.record.jump_events[i]
                instruction == runtime.record.program[event.pc + 1]
                receive == JumpChip_eval_receive(JumpChip_generate_trace(runtime.record)[i])
            IN /\ event.dst = instruction.op_a
               /\ receive.multiplicity = 1
               /\ receive.values = << event.pc, event.next_pc,
                                      Opcode_as_field(instruction.opcode),
                                      instruction.op_a, event.mv >>


\* The ByteLookupEvent a Byte lookup asks for: one of the two operands of
\* the tuple is the constant zero, the other the range-checked value.
RequestedByteEvent(lookup) ==
    IF lookup.values[1] = ByteOpcode_as_field("U8Range")
    THEN add_u8_range_check(lookup.values[2] + lookup.values[3])
    ELSE add_u16_range_check(lookup.values[2] + lookup.values[3])

\* The Byte lookups sent with multiplicity 1 by the real rows among rows.
RealRowByteSends(rows) ==
    {l \in CpuChip_byte_sends(rows) : rows[l.row].is_real = 1 /\ l.multiplicity = 1}

\* C26: after a successful execution, each Byte lookup the real CPU rows
\* send (the range check of mv, the limbs of clk, the limbs of the timestamp
\* difference of each evaluated memory access) asks for an event that the
\* CPU chip's dependency generation recorded as many times as it is sent.
C26_CpuByteSendsRecorded ==
    (phase = "returned" /\ run_result = "Ok") =>
        \A l \in RealRowByteSends(cpu_memory_cols(runtime.record)) :
            byte_lookups_count(CpuChip_generate_dependencies(runtime.record),
                               RequestedByteEvent(l))
            = Cardinality({ s \in RealRowByteSends(cpu_memory_cols(runtime.record)) :
                              RequestedByteEvent(s) = RequestedByteEvent(l) })


\* The byte_lookups of a record after the machine's dependency generation,
\* the executor having recorded none.
record_byte_lookups(record, num_cpus) ==
    StarkMachine_generate_dependencies(MachineChips, record, <<>>, num_cpus)

\* The total multiplicity with which a tuple occurs among a set of lookups.
RECURSIVE bus_total(_, _)
bus_total(lookups, values) ==
    IF lookups = {} THEN 0
    ELSE LET l == CHOOSE x \in lookups : TRUE
         IN (IF l.values = values THEN l.multiplicity ELSE 0)
            + bus_total(lookups \ {l}, values)

\* The tuple the chip requesting an event sends: range_check_u8 for a
\* U8Range event, the 16-bit limb of eval_range_check_24bits for a U16Range
\* event.
SentByteTuple(blu_event) ==
    IF blu_event.opcode = "U8Range"
    THEN range_check_u8(blu_event.b, 1).values
    ELSE eval_range_check_24bits_sends(blu_event.a1, 0, 1)[1].values

\* Every accumulated event is received as the tuple its requester sent with
\* the accumulated multiplicity, and every tuple is sent as often as it is
\* received.
ByteBusBalances(sends, receives, byte_lookups) ==
    /\ \A blu_event \in DOMAIN byte_lookups :
          bus_total(receives, SentByteTuple(blu_event)) = byte_lookups[blu_event]
    /\ \A l \in sends \cup receives :
          bus_total(sends, l.values) = bus_total(receives, l.values)

\* C27: after a successful execution, for every ByteLookupEvent accumulated
\* with multiplicity m the Byte chip receives the tuple the requesting chip
\* sent with total multiplicity m (from the row whose looked-up column holds
\* the requested value), and the Byte bus balances.
C27_ByteChipReceivesRequests ==
    (phase = "returned" /\ run_result = "Ok") =>
        \A num_cpus \in 1..MaxNumCpus :
            \E byte_lookups \in {record_byte_lookups(runtime.record, num_cpus)} :
                ByteBusBalances(byte_bus_sends(runtime.record),
                                byte_bus_receives(byte_lookups), byte_lookups)


\* The chunks of the blu batches of a record under dependency generation,
\* as pairs of a chip and a chunk index.
BluChunks(blu_batches) ==
    {p \in DependencyChips \X (1..MaxChunks) : p[2] \in DOMAIN blu_batches[p[1]]}

\* The number of times the chunks of a set count an event, all together.
RECURSIVE BluTotal(_, _, _)
BluTotal(blu_batches, chunk_set, blu_event) ==
    IF chunk_set = {} THEN 0
    ELSE LET p == CHOOSE x \in chunk_set : TRUE
         IN byte_lookups_count(blu_batches[p[1]][p[2]], blu_event)
            + BluTotal(blu_batches, chunk_set \ {p}, blu_event)

\* The key-by-key sum of all chunks: the events some chunk counts, each with
\* its total.
BluSum(blu_batches) ==
    [ blu_event \in UNION {DOMAIN blu_batches[p[1]][p[2]] : p \in BluChunks(blu_batches)} |->
        BluTotal(blu_batches, BluChunks(blu_batches), blu_event) ]

\* C28: when all chips have generated their dependencies, in whatever order
\* the chips ran and the chunks of each chip were collected, byte_lookups is
\* the key-by-key sum of the blu maps of all chunks; the first non-empty
\* output is taken over by the empty destination.
C28_MergeIsOrderIndependent ==
    phase = "merged" => runtime.byte_lookups = BluSum(runtime.blu_batches)

\* Both chips have two chunks that count the same event, the chips ran in
\* the order AddSub, Cpu, and the merged map counts the event four times.
C28_SharedKeyMergedBothOrders ==
    /\ phase = "merged"
    /\ runtime.merged = <<"AddSub", "Cpu">>
    /\ \A chip \in DependencyChips :
          /\ Len(runtime.blu_batches[chip]) = 2
          /\ \A i \in 1..2 : add_u8_range_check(1) \in DOMAIN runtime.blu_batches[chip][i]
    /\ add_u16_range_check(1) \in DOMAIN runtime.blu_batches["Cpu"][2]
    /\ add_u16_range_check(1) \notin DOMAIN runtime.blu_batches["AddSub"][1]
    /\ byte_lookups_count(runtime.byte_lookups, add_u8_range_check(1)) = 4


\* n is a power of two.
IsPowerOfTwo(n) == \E k \in 0..16 : n = 2^k

\* The rows of the CPU trace beyond the recorded events are zero rows with
\* is_real = 0.
CpuPaddingIsZero(record) ==
    \A i \in DOMAIN cpu_trace(record) :
        i > Len(record.cpu_events) =>
            /\ cpu_trace(record)[i] = [clk |-> 0, pc |-> 0, next_pc |-> 0, is_real |-> 0]
            /\ cpu_memory_cols(record)[i].is_real = 0
            /\ cpu_memory_cols(record)[i].mv = 0
            /\ cpu_memory_cols(record)[i].next_mv = 0

\* C29: after a successful execution the main trace of every chip of the
\* shard, the CPU chip included, has a number of rows that is a power of
\* two and at least 16, and the CPU rows beyond the recorded events are zero
\* rows with is_real = 0.
C29_TraceHeights ==
    (phase = "returned" /\ run_result = "Ok") =>
        /\ \A chip \in ChipNames :
              included(chip, runtime.record) =>
                  /\ IsPowerOfTwo(main_trace_height(chip, runtime.record))
                  /\ main_trace_height(chip, runtime.record) >= 16
        /\ CpuPaddingIsZero(runtime.record)


\* The elements of a sequence.
Elements(s) == {s[i] : i \in DOMAIN s}

\* The lookups the CPU AIR sends or receives on one row: on the Memory bus,
\* on the Byte bus and to the specialised chips.
CpuRowLookups(local) ==
    Elements(eval_registers_sends(local)) \cup Elements(eval_registers_receives(local))
        \cup Elements(CpuChip_eval_byte_sends(local))

\* The rows of the CPU trace beyond the recorded events.
CpuPaddingRows(record) ==
    {i \in DOMAIN cpu_memory_cols(record) : i > Len(record.cpu_events)}

\* C30: after a successful execution every padding row of the CPU trace
\* sends and receives every lookup with multiplicity zero and satisfies the
\* constraints of the row: the range check of clk and those of the two
\* memory accesses (selectors 1 - is_memory_instr and is_alu), the timestamp
\* range check clk - prev_clk - 1 = limb_16 + 2^16 * limb_8 included.
C30_PaddingRowsAreInert ==
    (phase = "returned" /\ run_result = "Ok") =>
        \A i \in CpuPaddingRows(runtime.record) :
            /\ cpu_memory_cols(runtime.record)[i].is_real = 0
            /\ \A l \in CpuRowLookups(cpu_memory_cols(runtime.record)[i]) :
                  l.multiplicity = 0
            /\ eval_clk_range_holds(cpu_memory_cols(runtime.record)[i])
            /\ eval_registers_holds(cpu_memory_cols(runtime.record)[i])


U32IsSucc(a, b) ==
    \/ a[2] < 2^16 - 1 /\ b = <<a[1], a[2] + 1>>
    \/ a[2] = 2^16 - 1 /\ a[1] < 2^16 - 1 /\ b = <<a[1] + 1, 0>>

\* The number of events of an opcode among memory instruction events.
CountOpcode(events, opcode) ==
    Cardinality({i \in DOMAIN events : events[i].opcode = opcode})

\* C33: after a successful execution every MemInstrEvent has
\* next_mp = mp + 1 for `>` and next_mp = mp - 1 for `<`, each event after
\* the first has the mp that the event before it has as next_mp, the first
\* has mp = 0, and mem_ptr is the number of `>` executed minus the number of
\* `<` executed.
C33_MemPtrIsStepCount ==
    (phase = "returned" /\ run_result = "Ok") =>
        /\ \A i \in DOMAIN runtime.record.memory_instr_events :
              /\ runtime.record.memory_instr_events[i].opcode = "MemStepForward" =>
                     U32IsSucc(runtime.record.memory_instr_events[i].mp,
                               runtime.record.memory_instr_events[i].next_mp)
              /\ runtime.record.memory_instr_events[i].opcode = "MemStepBackward" =>
                     U32IsSucc(runtime.record.memory_instr_events[i].next_mp,
                               runtime.record.memory_instr_events[i].mp)
              /\ i = 1 => runtime.record.memory_instr_events[i].mp = U32(0)
              /\ i > 1 => runtime.record.memory_instr_events[i].mp
                              = runtime.record.memory_instr_events[i - 1].next_mp
        /\ CountOpcode(runtime.record.memory_instr_events, "MemStepForward")
               >= CountOpcode(runtime.record.memory_instr_events, "MemStepBackward")
        /\ runtime.state.mem_ptr
               = U32(CountOpcode(runtime.record.memory_instr_events, "MemStepForward")
                     - CountOpcode(runtime.record.memory_instr_events, "MemStepBackward"))


\* The matrix a sequential pass over the events produces: row r holds the
\* events r * entries .. r * entries + entries - 1 (rows counted from 0),
\* zero where there is no event.
SequentialTrace(chip, events, padded_nb_rows) ==
    [ r \in 1..padded_nb_rows |->
        [ k \in 1..entries_per_row(chip) |->
            IF (r - 1) * entries_per_row(chip) + k <= Len(events)
            THEN events[(r - 1) * entries_per_row(chip) + k] ELSE 0 ] ]

\* C31: for every number of workers and every interleaving of the chunk
\* workers, no row is written by two workers, a row that was written holds
\* the events of its own index, and the matrix returned is the one a
\* sequential pass over the events produces.
C31_ParallelTraceIsSequential ==
    phase \in {"tracing", "generated"} =>
        /\ \A r \in DOMAIN runtime.values :
              /\ Cardinality(runtime.written[r]) <= 1
              /\ runtime.written[r] # {} =>
                     runtime.values[r]
                         = SequentialTrace(runtime.chip, runtime.events,
                                           Len(runtime.values))[r]
        /\ phase = "generated" =>
              runtime.values
                  = SequentialTrace(runtime.chip, runtime.events, Len(runtime.values))

\* The Memory chip's trace of three events generated from chunks of one
\* row by two workers: the second row is half filled, and the two rows
\* were written from different chunks.
C31_MemoryTraceFromChunks ==
    /\ phase = "generated"
    /\ runtime.chip = "Memory"
    /\ Len(runtime.events) = 3
    /\ runtime.num_cpus = 2
    /\ Len(runtime.workers) = 2
    /\ runtime.values[2] = <<3, 0>>
    /\ runtime.written[1] # runtime.written[2]
    /\ runtime.written[2] # {}


\* The positions of the transcript entries of an operation and a value.
Positions(challenger, op, value) ==
    {i \in DOMAIN challenger : challenger[i].op = op /\ challenger[i].value = value}

\* A shard verification that reached the sampling of the out-of-domain
\* point.
ShardTranscriptComplete ==
    /\ phase = "verified"
    /\ "shard_challenger" \in DOMAIN runtime
    /\ Positions(runtime.shard_challenger, "sample", "zeta") # {}

\* The order of the verifier's transcript: the two permutation challenges
\* between the main and the permutation commitment, a cumulative sum for
\* each chip between the permutation commitment and alpha, and zeta after
\* the quotient commitment.
VerifierTranscriptOrdered ==
    ShardTranscriptComplete =>
        LET t == runtime.shard_challenger
            chips == shard_chips_ordered(proof.chip_ordering)
        IN /\ Cardinality(Positions(t, "sample", "permutation_challenge")) = 2
           /\ \A c \in Positions(t, "sample", "permutation_challenge") :
                  /\ \E m \in Positions(t, "observe", "main_commit") : m < c
                  /\ \A p \in Positions(t, "observe", "permutation_commit") : c < p
           /\ Positions(t, "observe", "permutation_commit") # {}
           /\ \A i \in 1..Len(chips) :
                  \E s \in Positions(t, "observe", "cumulative_sum") : t[s].chip = chips[i]
           /\ \A s \in Positions(t, "observe", "cumulative_sum") :
                  /\ \E p \in Positions(t, "observe", "permutation_commit") : p < s
                  /\ \A a \in Positions(t, "sample", "alpha") : s < a
           /\ Positions(t, "sample", "alpha") # {}
           /\ \A z \in Positions(t, "sample", "zeta") :
                  \E q \in Positions(t, "observe", "quotient_commit") : q < z

OmitsPreprocessedChip(shard_proof) ==
    \E name \in vk_chip_information : name \notin DOMAIN shard_proof.chip_ordering

IndexOutsideOpenedChips(shard_proof) ==
    \E name \in DOMAIN shard_proof.chip_ordering :
        shard_proof.chip_ordering[name] >= Len(shard_proof.opened_values)

LogDegreeBeyondWord(shard_proof) ==
    \E i \in 1..Len(shard_proof.opened_values) :
        shard_proof.opened_values[i].log_degree >= 64

\* C35: verification never panics, and a proof whose chip_ordering omits
\* a preprocessed chip of the verifying key, maps a chip name to an index
\* outside opened_values.chips, or carries a log_degree of 64 or more is
\* rejected with an Err value.
C35_MalformedProofsAreErrors ==
    phase = "verified" =>
        /\ verify_result # Panic
        /\ \/ OmitsPreprocessedChip(proof)
           \/ IndexOutsideOpenedChips(proof)
           \/ LogDegreeBeyondWord(proof)
           => verify_result.tag = "Err"


\* C36: every recorded CpuEvent has clk < 2^24, its row's limbs recompose
\* the clock, clk = clk_16bit_limb + 2^16 * clk_8bit_limb, and the
\* timestamp difference minus one of each of its memory accesses fits in
\* 24 bits.
C36_ClockBelowBound ==
    "record" \in DOMAIN runtime =>
        \A i \in 1..Len(runtime.record.cpu_events) :
            LET event == runtime.record.cpu_events[i]
                row == cpu_memory_cols(runtime.record)[i]
            IN /\ event.clk < 2^24
               /\ event.clk = row.clk_16bit_limb + 2^16 * row.clk_8bit_limb
               /\ \A access \in {event.mv_access, event.next_mv_access} :
                      access # None =>
                          /\ access.val.timestamp - access.val.prev_timestamp - 1 >= 0
                          /\ access.val.timestamp - access.val.prev_timestamp - 1 < 2^24

====
